---- MODULE Spec2Model ----
(***************************************************************************)
(* Model of concordium-std-derive (src/concordium-std-derive/src/lib.rs):  *)
(*   - the field-attribute parser and the per-field code generators,       *)
(*   - the derived Serial / Deserial implementations (wire format),        *)
(*   - the exported init / receive wrappers (their run-time steps).        *)
(*   - the init / receive / contract_state attribute macros (generation).  *)
(* Four specifications share the variables: SpecGen (generation time of    *)
(* the derives), SpecCodec (the generated encoder and decoder at run       *)
(* time), SpecWrap (the generated entry-point wrappers at run time) and    *)
(* SpecSite (generation time of the attribute macros).                     *)
(***************************************************************************)
EXTENDS Integers, Sequences, FiniteSets, TLC

VARIABLES
    fattrs,   \* generation: the nested metas of a field's #[concordium(...)] attributes
    gout,     \* generation: the last generator call and its result
    ty,       \* codec: the type the derives were applied to
    val,      \* codec: the value handed to the generated serial
    bytes,    \* codec: the bytes written by serial, or handed to deserial
    dec,      \* codec: the result of the generated deserial
    cpc,      \* codec: position (idle, derived, chosen, encoded, decoded, raw)
    wcfg,     \* wrapper: the entry point called (kind and flags)
    wpc,      \* wrapper: position inside the exported function
    amount,   \* wrapper: the amount the call carries (micro GTU)
    store,    \* wrapper: the bytes of the contract state store
    store0,   \* wrapper: the bytes of the state store at call entry
    cursor,   \* wrapper: current position of the opened ContractState
    wstate,   \* wrapper: the state value held by the wrapper (deserialized / returned)
    ures,     \* wrapper: the result of the user function
    status,   \* wrapper: how the call ended (running, returned code, trapped)
    wlog,     \* wrapper: the steps the current call has executed, in order
    sattrs,   \* site: the metas of an #[init(..)] / #[receive(..)] / #[contract_state(..)]
    sitem,    \* site: the annotated item (its kind, identifier, argument count)
    sout      \* site: the last attribute-macro call and its result

genVars == <<fattrs, gout>>
codecVars == <<ty, val, bytes, dec, cpc>>
wrapVars == <<wcfg, wpc, amount, store, store0, cursor, wstate, ures, status, wlog>>
siteVars == <<sattrs, sitem, sout>>
vars == <<fattrs, gout, ty, val, bytes, dec, cpc,
          wcfg, wpc, amount, store, store0, cursor, wstate, ures, status, wlog,
          sattrs, sitem, sout>>

(***************************************************************************)
(* Bounds of the model.                                                    *)
(***************************************************************************)
MaxAttrs == 3      \* nested metas on one field
MaxLen == 2        \* elements of a small container value
MaxTag == 2        \* largest action tag the user function returns
MaxStateLen == 2   \* elements of the contract state value

(***************************************************************************)
(* Results and options.  Option: <<>> is None, <<x>> is Some(x).           *)
(* syn::Result: ok, the value (as an option-like sequence), the errors.    *)
(* A syn::Error is a sequence of (span, message); a span is the position   *)
(* of the nested meta in the field's attribute list.                       *)
(***************************************************************************)
None == <<>>
Some(x) == <<x>>
Ok(x) == [ok |-> TRUE, val |-> <<x>>, err |-> <<>>]
Err(e) == [ok |-> FALSE, val |-> <<>>, err |-> e]
Error(span, msg) == <<[span |-> span, msg |-> msg]>>
Unwrap(r) == r.val[1]

(***************************************************************************)
(* syn::Meta: Path (a bare flag), NameValue (name = literal), List         *)
(* (name(...)); a nested literal is form "lit".  Literal kinds: int (a     *)
(* base-10 integer that fits u32), bigint (an integer that does not), str. *)
(***************************************************************************)
NoLit == [k |-> "none", v |-> 0]
IntLit(n) == [k |-> "int", v |-> n]
StrLit == [k |-> "str", v |-> 0]
BigIntLit == [k |-> "bigint", v |-> 0]
MetaPath(n) == [name |-> n, form |-> "path", lit |-> NoLit]
MetaList(n) == [name |-> n, form |-> "list", lit |-> NoLit]
MetaNV(n, l) == [name |-> n, form |-> "nv", lit |-> l]
NestedLit == [name |-> "", form |-> "lit", lit |-> StrLit]

VALID_CONCORDIUM_FIELD_ATTRIBUTES ==
    {"size_length", "set_size_length", "map_size_length", "string_size_length",
     "ensure_ordered"}

\* `let x = e; body`: the value of e is computed once and named in the body.
Bind(x, Body(_)) == Body(x)

\* contains_attribute: any entry whose path is `name`, whatever its form.
contains_attribute(metas, name) ==
    \E i \in 1..Len(metas) : metas[i].form # "lit" /\ metas[i].name = name

\* The result of the .map(...) closure for the nested meta at position i.
FieldAttrCheck(attributes, i) ==
    IF attributes[i].form = "lit"
    THEN Err(Error(i, "Literals are not supported in a concordium field attribute."))
    ELSE IF attributes[i].name \in VALID_CONCORDIUM_FIELD_ATTRIBUTES
         THEN Ok(attributes[i])
         ELSE Err(Error(i, "The attribute is not supported as a concordium field attribute."))

\* Mutant of get_concordium_field_attributes: only the first nested entry is
\* checked against the list of valid attributes.
get_concordium_field_attributes_FirstOnly(attributes) ==
    IF Len(attributes) = 0 \/ FieldAttrCheck(attributes, 1).ok
    THEN Ok(attributes)
    ELSE Err(FieldAttrCheck(attributes, 1).err)

\* collect::<syn::Result<Vec<_>>>() stops at the first Err.
get_concordium_field_attributes(attributes) ==
    IF \A i \in 1..Len(attributes) : FieldAttrCheck(attributes, i).ok
    THEN Ok(attributes)
    ELSE Err(FieldAttrCheck(attributes,
                 CHOOSE i \in 1..Len(attributes) :
                     /\ ~FieldAttrCheck(attributes, i).ok
                     /\ \A j \in 1..(i - 1) : FieldAttrCheck(attributes, j).ok).err)

\* The positions, in order, of the NameValue entries named target_attr.
RECURSIVE PositionsOf(_, _, _)
PositionsOf(metas, target_attr, i) ==
    IF i > Len(metas) THEN <<>>
    ELSE (IF metas[i].form = "nv" /\ metas[i].name = target_attr THEN <<i>> ELSE <<>>)
         \o PositionsOf(metas, target_attr, i + 1)

OnceMsg == "Attribute should only be specified once."

\* Mutant of DuplicateError: the loop over the further occurrences is missing.
DuplicateError_SecondOnly(pos) == <<[span |-> pos[2], msg |-> OnceMsg]>>

\* The error built for duplicates: created at attr_values[1] (zero-based: the
\* second occurrence), then the occurrences after it (skip(2)) are combined
\* into it.
DuplicateError(pos) ==
    [j \in 1..(Len(pos) - 1) |-> [span |-> pos[j + 1], msg |-> OnceMsg]]

find_field_attribute_value(attributes, target_attr) ==
    Bind(get_concordium_field_attributes(attributes), LAMBDA got :
        IF ~got.ok THEN Err(got.err)
        ELSE Bind(PositionsOf(Unwrap(got), target_attr, 1), LAMBDA attr_values :
            IF Len(attr_values) = 0 THEN Ok(None)
            ELSE IF Len(attr_values) > 1 THEN Err(DuplicateError(attr_values))
            ELSE Ok(Some([span |-> attr_values[1],
                          lit |-> attributes[attr_values[1]].lit]))))

ValidWidths == {1, 2, 4, 8}

\* Mutant of WidthCheck: every integer is taken as a width.
WidthCheck_AnyValue(span, value) == Ok(Some(value))

WidthCheck(span, value) ==
    IF value \in ValidWidths
    THEN Ok(Some(value))
    ELSE Err(Error(span, "Length info must be either 1, 2, 4, or 8."))

find_length_attribute(attributes, target_attr) ==
    Bind(find_field_attribute_value(attributes, target_attr), LAMBDA found :
        IF ~found.ok THEN Err(found.err)
        ELSE IF Unwrap(found) = None THEN Ok(None)
        ELSE Bind(Unwrap(found)[1], LAMBDA value :
            IF value.lit.k \notin {"int", "bigint"}
            THEN Err(Error(value.span, "Length attribute value must be an integer."))
            ELSE IF value.lit.k = "bigint"
            THEN Err(Error(value.span, "Length attribute value must be a base 10 integer."))
            ELSE WidthCheck(value.span, value.lit.v)))

(***************************************************************************)
(* Per-field generators.  The generated tokens are kept as the helper the  *)
(* code calls (kind), the integer type of the length prefix (width, in     *)
(* bytes: u{8*l}) and, for deserial, whether the order-checking helper is  *)
(* called.  kind "delegate" is the field type's own Serial / Deserial.     *)
(***************************************************************************)
SerialTokens(kind, l) == [kind |-> kind, width |-> l]
DeserialTokens(kind, l, check) == [kind |-> kind, width |-> l, order_check |-> check]

\* The if / else-if chain of impl_serial_field from its n-th length attribute on.
LengthAttrOrder == <<"size_length", "map_size_length", "set_size_length", "string_size_length">>
KindOf(attr) ==
    CASE attr = "size_length" -> "vec"
      [] attr = "map_size_length" -> "map"
      [] attr = "set_size_length" -> "set"
      [] attr = "string_size_length" -> "string"

RECURSIVE SerialFieldFrom(_, _)
SerialFieldFrom(attrs, n) ==
    IF n > Len(LengthAttrOrder) THEN Ok(SerialTokens("delegate", 0))
    ELSE Bind(find_length_attribute(attrs, LengthAttrOrder[n]), LAMBDA l :
             IF ~l.ok THEN Err(l.err)
             ELSE IF Unwrap(l) # None
                  THEN Ok(SerialTokens(KindOf(LengthAttrOrder[n]), Unwrap(l)[1]))
                  ELSE SerialFieldFrom(attrs, n + 1))

\* Mutant of impl_serial_field: the string length is always written as a u8.
impl_serial_field_U8StringLength(attrs) ==
    Bind(SerialFieldFrom(attrs, 1), LAMBDA t :
        IF t.ok /\ Unwrap(t).kind = "string" THEN Ok(SerialTokens("string", 1)) ELSE t)

impl_serial_field(attrs) == SerialFieldFrom(attrs, 1)

\* Mutants of OrderChecked: the flag is ignored, one way or the other.
OrderChecked_Never(concordium_attributes) == FALSE
OrderChecked_Always(concordium_attributes) == TRUE

\* Which deserial helper a map / set field calls.
OrderChecked(concordium_attributes) ==
    contains_attribute(concordium_attributes, "ensure_ordered")

RECURSIVE DeserialFieldFrom(_, _, _)
DeserialFieldFrom(attrs, concordium_attributes, n) ==
    IF n > Len(LengthAttrOrder) THEN Ok(DeserialTokens("delegate", 0, FALSE))
    ELSE Bind(find_length_attribute(attrs, LengthAttrOrder[n]), LAMBDA l :
             IF ~l.ok THEN Err(l.err)
             ELSE IF Unwrap(l) # None
                  THEN Ok(DeserialTokens(KindOf(LengthAttrOrder[n]), Unwrap(l)[1],
                            /\ KindOf(LengthAttrOrder[n]) \in {"map", "set"}
                            /\ OrderChecked(concordium_attributes)))
                  ELSE DeserialFieldFrom(attrs, concordium_attributes, n + 1))

\* Mutant of impl_deserial_field: the length attribute written first on the
\* field decides, instead of the first one in priority order.
impl_deserial_field_WrittenOrder(attrs) ==
    Bind(get_concordium_field_attributes(attrs), LAMBDA concordium_attributes :
        IF ~concordium_attributes.ok THEN Err(concordium_attributes.err)
        ELSE Bind({i \in 1..Len(attrs) :
                      /\ attrs[i].form = "nv"
                      /\ \E n \in 1..Len(LengthAttrOrder) : attrs[i].name = LengthAttrOrder[n]},
                  LAMBDA written :
            IF written = {} THEN Ok(DeserialTokens("delegate", 0, FALSE))
            ELSE Bind(attrs[CHOOSE i \in written : \A j \in written : i <= j].name,
                      LAMBDA first :
                Bind(find_length_attribute(attrs, first), LAMBDA l :
                    IF ~l.ok THEN Err(l.err)
                    ELSE Ok(DeserialTokens(KindOf(first), Unwrap(l)[1],
                              /\ KindOf(first) \in {"map", "set"}
                              /\ OrderChecked(Unwrap(concordium_attributes))))))))

impl_deserial_field(attrs) ==
    Bind(get_concordium_field_attributes(attrs), LAMBDA concordium_attributes :
        IF ~concordium_attributes.ok THEN Err(concordium_attributes.err)
        ELSE DeserialFieldFrom(attrs, Unwrap(concordium_attributes), 1))

(***************************************************************************)
(* The derives.  An item is a struct (form, fields) or an enum of nvar     *)
(* variants; variant i (zero-based, declaration order) is declared as      *)
(* vdecl[(i % Len(vdecl)) + 1], so that enums of 257 or 65536 variants are *)
(* described by a short list of variant declarations.  A field is its      *)
(* attribute list and its declared type.                                   *)
(***************************************************************************)
Field(attrs, fty) == [attrs |-> attrs, fty |-> fty]
VariantDecl(form, fields) == [form |-> form, fields |-> fields]
StructItem(form, fields) ==
    [data |-> "struct", form |-> form, fields |-> fields, nvar |-> 0, vdecl |-> <<>>]
EnumItem(n, vdecl) ==
    [data |-> "enum", form |-> "unit", fields |-> <<>>, nvar |-> n, vdecl |-> vdecl]
VariantOf(item, i) == item.vdecl[(i % Len(item.vdecl)) + 1]

\* The fields a Fields value iterates over: none for syn::Fields::Unit.
FieldsIter(form, fields) == IF form = "unit" THEN <<>> ELSE fields

\* .map(impl_serial_field).collect::<syn::Result<_>>()?: the tokens of every
\* field in declaration order, or the first error.
RECURSIVE CollectSerial(_, _)
CollectSerial(fields, n) ==
    IF n > Len(fields) THEN Ok(<<>>)
    ELSE Bind(impl_serial_field(fields[n].attrs), LAMBDA t :
             IF ~t.ok THEN Err(t.err)
             ELSE Bind(CollectSerial(fields, n + 1), LAMBDA rest :
                 IF ~rest.ok THEN Err(rest.err)
                 ELSE Ok(<<[field |-> n, tok |-> Unwrap(t)]>> \o Unwrap(rest))))

\* .map(impl_deserial_field).collect::<syn::Result<TokenStream>>()? (enum variants).
RECURSIVE CollectDeserial(_, _)
CollectDeserial(fields, n) ==
    IF n > Len(fields) THEN Ok(<<>>)
    ELSE Bind(impl_deserial_field(fields[n].attrs), LAMBDA t :
             IF ~t.ok THEN Err(t.err)
             ELSE Bind(CollectDeserial(fields, n + 1), LAMBDA rest :
                 IF ~rest.ok THEN Err(rest.err)
                 ELSE Ok(<<[field |-> n, tok |-> Unwrap(t)]>> \o Unwrap(rest))))

\* field_tokens.extend(impl_deserial_field(..)) (struct fields): extending a
\* token stream by a syn::Result adds the tokens of an Ok and nothing for an Err.
RECURSIVE ExtendDeserial(_, _)
ExtendDeserial(fields, n) ==
    IF n > Len(fields) THEN <<>>
    ELSE Bind(impl_deserial_field(fields[n].attrs), LAMBDA t :
             IF t.ok THEN <<[field |-> n, tok |-> Unwrap(t)]>> ELSE <<>>)
         \o ExtendDeserial(fields, n + 1)

\* The integer type of an enum's tag, in bytes (u8: 1, u16: 2); 0 when the
\* enum has too many variants.  impl_deserial and impl_serial each decide it.
TagBytesSmall == 256
TagBytesLarge == 256 * 256
DeserialTagWidth(nvar) ==
    IF nvar <= TagBytesSmall THEN 1
    ELSE IF nvar <= TagBytesLarge THEN 2
    ELSE 0

\* Mutant of SerialTagWidth: the one-byte range is one variant too wide.
SerialTagWidth_OffByOne(nvar) ==
    IF nvar <= TagBytesSmall + 1 THEN 1
    ELSE IF nvar <= TagBytesLarge THEN 2
    ELSE 0

SerialTagWidth(nvar) ==
    IF nvar <= TagBytesSmall THEN 1
    ELSE IF nvar <= TagBytesLarge THEN 2
    ELSE 0

\* The variant declarations the per-variant loop visits: all of them, in order;
\* they repeat with period Len(vdecl), so the first error (if any) is found
\* among the first min(nvar, Len(vdecl)) variants.
Visited(item) ==
    IF item.nvar < Len(item.vdecl) THEN SubSeq(item.vdecl, 1, item.nvar) ELSE item.vdecl

RECURSIVE SerialArms(_, _)
SerialArms(vdecl, n) ==
    IF n > Len(vdecl) THEN Ok(<<>>)
    ELSE Bind(CollectSerial(FieldsIter(vdecl[n].form, vdecl[n].fields), 1), LAMBDA t :
             IF ~t.ok THEN Err(t.err)
             ELSE Bind(SerialArms(vdecl, n + 1), LAMBDA rest :
                 IF ~rest.ok THEN Err(rest.err)
                 ELSE Ok(<<[form |-> vdecl[n].form, steps |-> Unwrap(t)]>> \o Unwrap(rest))))

RECURSIVE DeserialArms(_, _)
DeserialArms(vdecl, n) ==
    IF n > Len(vdecl) THEN Ok(<<>>)
    ELSE Bind(CollectDeserial(FieldsIter(vdecl[n].form, vdecl[n].fields), 1), LAMBDA t :
             IF ~t.ok THEN Err(t.err)
             ELSE Bind(DeserialArms(vdecl, n + 1), LAMBDA rest :
                 IF ~rest.ok THEN Err(rest.err)
                 ELSE Ok(<<[form |-> vdecl[n].form, steps |-> Unwrap(t)]>> \o Unwrap(rest))))

\* The generated impl: for a struct its steps and the fields its constructor
\* names; for an enum the tag type, the number of match arms and the arms
\* (arm i is arms[(i % Len(arms)) + 1]).
Code(data, form, steps, names, tagw, narms, arms) ==
    [data |-> data, form |-> form, steps |-> steps, names |-> names,
     tagw |-> tagw, narms |-> narms, arms |-> arms]

\* impl_serial.  unimplemented!() panics: the derive produces no code.
impl_serial(item) ==
    IF item.data = "struct"
    THEN Bind(CollectSerial(FieldsIter(item.form, item.fields), 1), LAMBDA t :
             IF ~t.ok THEN Err(t.err)
             ELSE Ok(Code("struct", item.form, Unwrap(t), 1..Len(Unwrap(t)), 0, 0, <<>>)))
    ELSE Bind(SerialTagWidth(item.nvar), LAMBDA size :
             IF size = 0
             THEN Err(Error(0, "panic: Enums with more than 65536 variants are not supported."))
             ELSE Bind(SerialArms(Visited(item), 1), LAMBDA a :
                 IF ~a.ok THEN Err(a.err)
                 ELSE Ok(Code("enum", "unit", <<>>, {}, size, item.nvar, Unwrap(a)))))

\* impl_deserial.
impl_deserial(item) ==
    IF item.data = "struct"
    THEN Bind(FieldsIter(item.form, item.fields), LAMBDA fs :
             Ok(Code("struct", item.form, ExtendDeserial(fs, 1), 1..Len(fs), 0, 0, <<>>)))
    ELSE Bind(DeserialTagWidth(item.nvar), LAMBDA size :
             IF size = 0
             THEN Err(Error(0, "[derive(Deserial)]: Too many variants. Maximum 65536 are supported."))
             ELSE Bind(DeserialArms(Visited(item), 1), LAMBDA a :
                 IF ~a.ok THEN Err(a.err)
                 ELSE Ok(Code("enum", "unit", <<>>, {}, size, item.nvar, Unwrap(a)))))

\* serialize_derive_worker: impl_deserial(&ast)? first, then impl_serial(&ast)?.
serialize_derive_worker(item) ==
    Bind(impl_deserial(item), LAMBDA de :
        IF ~de.ok THEN Err(de.err)
        ELSE Bind(impl_serial(item), LAMBDA ser :
            IF ~ser.ok THEN Err(ser.err)
            ELSE Ok([de |-> Unwrap(de), ser |-> Unwrap(ser)])))

\* or_else_joined: b is asked only when a is Ok(None).
or_else_joined(a, b) == IF a.ok /\ Unwrap(a) = None THEN b ELSE a

\* The schema of a field: the field type's own, with set_size_length(U{8*l})
\* when a length attribute gives l.
SchemaTokens(annotated, l) == [annotated |-> annotated, width |-> l]

\* Mutant of schema_type_field_type: string_size_length is not looked at.
schema_type_field_type_NoStringLength(attrs) ==
    Bind(or_else_joined(find_length_attribute(attrs, "size_length"),
             or_else_joined(find_length_attribute(attrs, "map_size_length"),
                 find_length_attribute(attrs, "set_size_length"))),
         LAMBDA l :
             IF ~l.ok THEN Err(l.err)
             ELSE IF Unwrap(l) # None THEN Ok(SchemaTokens(TRUE, Unwrap(l)[1]))
             ELSE Ok(SchemaTokens(FALSE, 0)))

schema_type_field_type(attrs) ==
    Bind(or_else_joined(find_length_attribute(attrs, "size_length"),
             or_else_joined(find_length_attribute(attrs, "map_size_length"),
                 or_else_joined(find_length_attribute(attrs, "set_size_length"),
                     find_length_attribute(attrs, "string_size_length")))),
         LAMBDA l :
             IF ~l.ok THEN Err(l.err)
             ELSE IF Unwrap(l) # None THEN Ok(SchemaTokens(TRUE, Unwrap(l)[1]))
             ELSE Ok(SchemaTokens(FALSE, 0)))

(***************************************************************************)
(* The generated code at run time.  Field types: "u8", "vec" (Vec<u8>),    *)
(* "map" (BTreeMap<u8, u8>, a function on its key set), "set"              *)
(* (BTreeSet<u8>), "string" (String, its UTF-8 bytes).  A reader is a      *)
(* buffer and a position; a read result is [ok, val, pos].                 *)
(***************************************************************************)
\* uN::serial: the w low-order bytes of v, little endian.  Applied to a
\* length it is `len() as uN` followed by the integer's serial.
RECURSIVE LE(_, _)
LE(v, w) == IF w = 0 THEN <<>> ELSE <<v % 256>> \o LE(v \div 256, w - 1)

RECURSIVE FromLE(_)
FromLE(bs) == IF bs = <<>> THEN 0 ELSE bs[1] + 256 * FromLE(Tail(bs))

ReadOk(v, pos) == [ok |-> TRUE, val |-> <<v>>, pos |-> pos]
ReadErr(pos) == [ok |-> FALSE, val |-> <<>>, pos |-> pos]

\* uN::deserial for N = 8 * w: fails when fewer than w bytes are left.
ReadInt(buf, pos, w) ==
    IF pos + w - 1 > Len(buf) THEN ReadErr(pos)
    ELSE ReadOk(FromLE(SubSeq(buf, pos, pos + w - 1)), pos + w)

\* The keys of a set in increasing order (BTreeMap / BTreeSet iteration order).
RECURSIVE Ascending(_)
Ascending(S) ==
    IF S = {} THEN <<>>
    ELSE LET m == CHOOSE x \in S : \A y \in S : x <= y IN <<m>> \o Ascending(S \ {m})

\* serial_vector_no_length / serial_string: every element, one byte each.
serial_vector_no_length(v) == v
serial_string(v) == v
\* serial_set_no_length / serial_map_no_length: in increasing order of keys.
serial_set_no_length(s) == Ascending(s)
serial_map_no_length(m) ==
    Bind(Ascending(DOMAIN m), LAMBDA ks :
        [i \in 1..(2 * Len(ks)) |-> IF i % 2 = 1 THEN ks[(i + 1) \div 2] ELSE m[ks[i \div 2]]])

ElementCount(fty, v) ==
    CASE fty = "map" -> Cardinality(DOMAIN v)
      [] fty = "set" -> Cardinality(v)
      [] OTHER -> Len(v)

ElementBytes(kind, v) ==
    CASE kind = "vec" -> serial_vector_no_length(v)
      [] kind = "map" -> serial_map_no_length(v)
      [] kind = "set" -> serial_set_no_length(v)
      [] kind = "string" -> serial_string(v)

\* The field type's own Serial: collections prepend the number of elements as
\* 4 bytes little endian.
DefaultLengthBytes == 4
OwnSerial(fty, v) ==
    IF fty = "u8" THEN <<v>>
    ELSE LE(ElementCount(fty, v), DefaultLengthBytes) \o ElementBytes(fty, v)

\* The code impl_serial_field generates for one field, applied to its value.
RunSerialField(tok, fty, v) ==
    IF tok.kind = "delegate" THEN OwnSerial(fty, v)
    ELSE LE(ElementCount(tok.kind, v), tok.width) \o ElementBytes(tok.kind, v)

\* deserial_vector_no_length: len elements, one byte each.
deserial_vector_no_length(buf, pos, len) ==
    IF pos + len - 1 > Len(buf) THEN ReadErr(pos)
    ELSE ReadOk(SubSeq(buf, pos, pos + len - 1), pos + len)

\* deserial_string: len bytes that are valid UTF-8 (here: ASCII).
deserial_string(buf, pos, len) ==
    IF pos + len - 1 > Len(buf) THEN ReadErr(pos)
    ELSE LET s == SubSeq(buf, pos, pos + len - 1) IN
         IF \A i \in 1..len : s[i] < 128 THEN ReadOk(s, pos + len) ELSE ReadErr(pos)

StrictlyIncreasing(ks) == \A i \in 1..(Len(ks) - 1) : ks[i] < ks[i + 1]
Unique(ks) == \A i, j \in 1..Len(ks) : i # j => ks[i] # ks[j]

\* deserial_set_no_length: keys must be in strictly increasing order.
deserial_set_no_length(buf, pos, len) ==
    IF pos + len - 1 > Len(buf) THEN ReadErr(pos)
    ELSE LET ks == SubSeq(buf, pos, pos + len - 1) IN
         IF StrictlyIncreasing(ks) THEN ReadOk({ks[i] : i \in 1..len}, pos + len)
         ELSE ReadErr(pos)

\* deserial_set_no_length_no_order_check: only uniqueness is ensured.
deserial_set_no_length_no_order_check(buf, pos, len) ==
    IF pos + len - 1 > Len(buf) THEN ReadErr(pos)
    ELSE LET ks == SubSeq(buf, pos, pos + len - 1) IN
         IF Unique(ks) THEN ReadOk({ks[i] : i \in 1..len}, pos + len)
         ELSE ReadErr(pos)

MapKeys(buf, pos, len) == [i \in 1..len |-> buf[pos + 2 * (i - 1)]]
MapOf(buf, pos, len) ==
    LET ks == MapKeys(buf, pos, len) IN
    [k \in {ks[i] : i \in 1..len} |->
        LET i == CHOOSE j \in 1..len : ks[j] = k /\ \A l \in 1..len : ks[l] = k => l <= j
        IN buf[pos + 2 * (i - 1) + 1]]

\* deserial_map_no_length: keys must be in strictly increasing order.
deserial_map_no_length(buf, pos, len) ==
    IF pos + 2 * len - 1 > Len(buf) THEN ReadErr(pos)
    ELSE IF StrictlyIncreasing(MapKeys(buf, pos, len))
         THEN ReadOk(MapOf(buf, pos, len), pos + 2 * len)
         ELSE ReadErr(pos)

\* deserial_map_no_length_no_order_check: only uniqueness is ensured.
deserial_map_no_length_no_order_check(buf, pos, len) ==
    IF pos + 2 * len - 1 > Len(buf) THEN ReadErr(pos)
    ELSE IF Unique(MapKeys(buf, pos, len))
         THEN ReadOk(MapOf(buf, pos, len), pos + 2 * len)
         ELSE ReadErr(pos)

ReadElements(kind, check, buf, pos, len) ==
    CASE kind = "vec" -> deserial_vector_no_length(buf, pos, len)
      [] kind = "string" -> deserial_string(buf, pos, len)
      [] kind = "map" /\ check -> deserial_map_no_length(buf, pos, len)
      [] kind = "map" /\ ~check -> deserial_map_no_length_no_order_check(buf, pos, len)
      [] kind = "set" /\ check -> deserial_set_no_length(buf, pos, len)
      [] kind = "set" /\ ~check -> deserial_set_no_length_no_order_check(buf, pos, len)

\* let len = uN::deserial(source)?; helper(source, len as usize)?
ReadLengthPrefixed(kind, w, check, buf, pos) ==
    Bind(ReadInt(buf, pos, w), LAMBDA len :
        IF ~len.ok THEN ReadErr(pos)
        ELSE ReadElements(kind, check, buf, len.pos, len.val[1]))

\* The field type's own Deserial.
OwnDeserial(fty, buf, pos) ==
    IF fty = "u8" THEN ReadInt(buf, pos, 1)
    ELSE ReadLengthPrefixed(fty, DefaultLengthBytes, FALSE, buf, pos)

\* The code impl_deserial_field generates for one field, applied to a reader.
RunDeserialField(tok, fty, buf, pos) ==
    IF tok.kind = "delegate" THEN OwnDeserial(fty, buf, pos)
    ELSE ReadLengthPrefixed(tok.kind, tok.width, tok.order_check, buf, pos)

\* The field a step of the generated code works on.
FieldType(fields, step) == fields[step.field].fty

\* The steps of a struct body or of a match arm, in order: each writes its field.
RECURSIVE RunSerialSteps(_, _, _, _)
RunSerialSteps(steps, fields, vals, n) ==
    IF n > Len(steps) THEN <<>>
    ELSE RunSerialField(steps[n].tok, FieldType(fields, steps[n]), vals[steps[n].field])
         \o RunSerialSteps(steps, fields, vals, n + 1)

\* The generated Serial::serial on a value [variant, fields] (variant 0 for a
\* struct).  An enum writes the tag literal {i}u8 / {i}u16, then the fields.
RunSerial(code, item, v) ==
    IF code.data = "struct"
    THEN RunSerialSteps(code.steps, item.fields, v.fields, 1)
    ELSE LET arm == code.arms[(v.variant % Len(code.arms)) + 1] IN
         LE(v.variant, code.tagw)
         \o RunSerialSteps(arm.steps, VariantOf(item, v.variant).fields, v.fields, 1)

\* The steps of a struct body or of a match arm, in order: each reads its field
\* with `?`, so the first failure ends the decoding.
RECURSIVE RunDeserialSteps(_, _, _, _, _)
RunDeserialSteps(steps, fields, buf, pos, n) ==
    IF n > Len(steps) THEN ReadOk(<<>>, pos)
    ELSE Bind(RunDeserialField(steps[n].tok, FieldType(fields, steps[n]), buf, pos), LAMBDA r :
             IF ~r.ok THEN ReadErr(r.pos)
             ELSE Bind(RunDeserialSteps(steps, fields, buf, r.pos, n + 1), LAMBDA rest :
                 IF ~rest.ok THEN ReadErr(rest.pos)
                 ELSE ReadOk(<<r.val[1]>> \o rest.val[1], rest.pos)))

Value(variant, fields) == [variant |-> variant, fields |-> fields]

\* Mutant of RunDeserial: the match has no `_` arm, a tag selects an arm by
\* its remainder.
RunDeserial_NoCatchAll(code, item, buf, pos) ==
    IF code.data = "struct"
    THEN Bind(RunDeserialSteps(code.steps, item.fields, buf, pos, 1), LAMBDA r :
             IF ~r.ok THEN ReadErr(r.pos) ELSE ReadOk(Value(0, r.val[1]), r.pos))
    ELSE Bind(ReadInt(buf, pos, code.tagw), LAMBDA idx :
             IF ~idx.ok THEN ReadErr(pos)
             ELSE Bind(RunDeserialSteps(code.arms[(idx.val[1] % Len(code.arms)) + 1].steps,
                                        VariantOf(item, idx.val[1]).fields, buf, idx.pos, 1),
                       LAMBDA r :
                 IF ~r.ok THEN ReadErr(r.pos)
                 ELSE ReadOk(Value(idx.val[1], r.val[1]), r.pos)))

\* The generated Deserial::deserial on a reader.  An enum reads idx and matches
\* it against the literals 0 .. narms-1; `_ => Err(Default::default())`.
RunDeserial(code, item, buf, pos) ==
    IF code.data = "struct"
    THEN Bind(RunDeserialSteps(code.steps, item.fields, buf, pos, 1), LAMBDA r :
             IF ~r.ok THEN ReadErr(r.pos) ELSE ReadOk(Value(0, r.val[1]), r.pos))
    ELSE Bind(ReadInt(buf, pos, code.tagw), LAMBDA idx :
             IF ~idx.ok THEN ReadErr(pos)
             ELSE IF idx.val[1] >= code.narms THEN ReadErr(idx.pos)
             ELSE Bind(RunDeserialSteps(code.arms[(idx.val[1] % Len(code.arms)) + 1].steps,
                                        VariantOf(item, idx.val[1]).fields, buf, idx.pos, 1),
                       LAMBDA r :
                 IF ~r.ok THEN ReadErr(r.pos)
                 ELSE ReadOk(Value(idx.val[1], r.val[1]), r.pos)))

(***************************************************************************)
(* Inputs of the generation-time specification: the nested metas a field   *)
(* may carry, and the items the derives are applied to.                    *)
(***************************************************************************)
MetaAlphabet ==
    {MetaNV("size_length", IntLit(n)) : n \in {1, 2, 3}}
    \cup {MetaNV("size_length", StrLit), MetaPath("size_length"), MetaList("size_length")}
    \cup {MetaNV("map_size_length", IntLit(n)) : n \in {2, 3}}
    \cup {MetaNV("set_size_length", IntLit(n)) : n \in {4, 0}}
    \cup {MetaNV("string_size_length", IntLit(n)) : n \in {8, 16}}
    \cup {MetaPath("ensure_ordered"), MetaPath("bogus"), NestedLit}

AttrLists == UNION {[1..n -> MetaAlphabet] : n \in 0..MaxAttrs}

\* The items a derive is applied to, built around a field carrying `attrs`.
Plain == Field(<<>>, "u8")
GenItems(attrs) ==
    {StructItem("named", <<Field(attrs, "vec"), Plain>>),
     StructItem("named", <<Plain, Field(attrs, "vec")>>),
     StructItem("unnamed", <<Field(attrs, "vec")>>),
     StructItem("unit", <<>>)}
    \cup {EnumItem(n, <<VariantDecl("unit", <<>>),
                        VariantDecl("unnamed", <<Plain, Field(attrs, "vec")>>),
                        VariantDecl("named", <<Field(attrs, "vec")>>)>>)
          : n \in {1, 256, 257, 65536, 65537}}

NoCall == [fn |-> "none", target |-> "", item |-> StructItem("unit", <<>>), res |-> Ok(0)]
Call(fn, target, item, res) == [fn |-> fn, target |-> target, item |-> item, res |-> res]
NoItem == StructItem("unit", <<>>)

(***************************************************************************)
(* Generation-time actions: each applies one generator function to the     *)
(* field's attributes (or to an item built around the field).  The         *)
(* generator runs once per annotated item.                                 *)
(***************************************************************************)
GenCollectAttributes ==
    /\ gout.fn = "none"
    /\ gout' = Call("get_concordium_field_attributes", "", NoItem,
                    get_concordium_field_attributes(fattrs))
    /\ UNCHANGED <<fattrs, codecVars, wrapVars, siteVars>>

GenFindValue ==
    /\ gout.fn = "none"
    /\ \E n \in 1..Len(LengthAttrOrder) :
         gout' = Call("find_field_attribute_value", LengthAttrOrder[n], NoItem,
                      find_field_attribute_value(fattrs, LengthAttrOrder[n]))
    /\ UNCHANGED <<fattrs, codecVars, wrapVars, siteVars>>

GenFindLength ==
    /\ gout.fn = "none"
    /\ \E n \in 1..Len(LengthAttrOrder) :
         gout' = Call("find_length_attribute", LengthAttrOrder[n], NoItem,
                      find_length_attribute(fattrs, LengthAttrOrder[n]))
    /\ UNCHANGED <<fattrs, codecVars, wrapVars, siteVars>>

GenSerialField ==
    /\ gout.fn = "none"
    /\ gout' = Call("impl_serial_field", "", NoItem, impl_serial_field(fattrs))
    /\ UNCHANGED <<fattrs, codecVars, wrapVars, siteVars>>

GenDeserialField ==
    /\ gout.fn = "none"
    /\ gout' = Call("impl_deserial_field", "", NoItem, impl_deserial_field(fattrs))
    /\ UNCHANGED <<fattrs, codecVars, wrapVars, siteVars>>

DeriveSerial ==
    /\ gout.fn = "none"
    /\ \E item \in GenItems(fattrs) :
         gout' = Call("impl_serial", "", item, impl_serial(item))
    /\ UNCHANGED <<fattrs, codecVars, wrapVars, siteVars>>

DeriveDeserial ==
    /\ gout.fn = "none"
    /\ \E item \in GenItems(fattrs) :
         gout' = Call("impl_deserial", "", item, impl_deserial(item))
    /\ UNCHANGED <<fattrs, codecVars, wrapVars, siteVars>>

DeriveSerializeBoth ==
    /\ gout.fn = "none"
    /\ \E item \in GenItems(fattrs) :
         gout' = Call("serialize_derive", "", item, serialize_derive_worker(item))
    /\ UNCHANGED <<fattrs, codecVars, wrapVars, siteVars>>

GenSchemaField ==
    /\ gout.fn = "none"
    /\ gout' = Call("schema_type_field_type", "", NoItem, schema_type_field_type(fattrs))
    /\ UNCHANGED <<fattrs, codecVars, wrapVars, siteVars>>

NextGen ==
    \/ DeriveSerializeBoth
    \/ GenSchemaField
    \/ GenCollectAttributes
    \/ GenFindValue
    \/ GenFindLength
    \/ GenSerialField
    \/ GenDeserialField
    \/ DeriveSerial
    \/ DeriveDeserial

(***************************************************************************)
(* Inputs of the codec specification: well-typed fields (the attribute     *)
(* names the helper of the field's type), the items built from them, their *)
(* values, and raw byte strings handed to the decoder.                     *)
(***************************************************************************)
VecField(w) == Field(<<MetaNV("size_length", IntLit(w))>>, "vec")
MapField(w) == Field(<<MetaNV("map_size_length", IntLit(w))>>, "map")
SetField(w) == Field(<<MetaNV("set_size_length", IntLit(w))>>, "set")
StringField(w) == Field(<<MetaNV("string_size_length", IntLit(w))>>, "string")
OrderedMapField(w) ==
    Field(<<MetaNV("map_size_length", IntLit(w)), MetaPath("ensure_ordered")>>, "map")
OrderedSetField(w) ==
    Field(<<MetaPath("ensure_ordered"), MetaNV("set_size_length", IntLit(w))>>, "set")

CodecFields ==
    {Plain, Field(<<>>, "vec"), Field(<<>>, "map"), Field(<<>>, "string")}
    \cup {VecField(w) : w \in ValidWidths}
    \cup {MapField(1), MapField(2), SetField(1), SetField(4), StringField(1), StringField(8)}
    \cup {OrderedMapField(1), OrderedSetField(1)}

CodecVariants ==
    <<VariantDecl("unit", <<>>),
      VariantDecl("unnamed", <<Plain, VecField(1)>>),
      VariantDecl("named", <<MapField(1)>>)>>

CodecItems ==
    {StructItem("named", <<f>>) : f \in CodecFields}
    \cup {StructItem("unnamed", <<f>>) : f \in {Plain, VecField(2)}}
    \cup {StructItem("unit", <<>>),
          StructItem("named", <<VecField(1), Plain>>),
          StructItem("unnamed", <<Plain, OrderedMapField(1), StringField(1)>>)}
    \cup {EnumItem(n, CodecVariants) : n \in {1, 2, 3, 256, 257, 65536, 65537}}

\* Values of a field type.  Besides the small ones, vectors of 255, 256 and
\* 257 elements: the lengths around what one byte can count.
SmallSeqs(S) == UNION {[1..n -> S] : n \in 0..MaxLen}
LongVecs == {[i \in 1..n |-> 0] : n \in {255, 256, 257}}
FieldValues(fty) ==
    CASE fty = "u8" -> {0, 7, 255}
      [] fty = "vec" -> SmallSeqs({0, 1}) \cup LongVecs
      [] fty = "string" -> SmallSeqs({65, 66})
      [] fty = "set" -> SUBSET (0..MaxLen)
      [] fty = "map" -> UNION {[K -> {0, 3}] : K \in SUBSET (1..MaxLen)}

RECURSIVE FieldValueSeqs(_, _)
FieldValueSeqs(fields, n) ==
    IF n > Len(fields) THEN {<<>>}
    ELSE {<<v>> \o rest : v \in FieldValues(fields[n].fty),
                          rest \in FieldValueSeqs(fields, n + 1)}

\* The variant indices tried for an enum of nvar variants.
VariantIndices(nvar) == {0, 1, 2, 255, 256, nvar - 1} \cap (0..(nvar - 1))

ValuesOf(item) ==
    IF item.data = "struct"
    THEN {Value(0, fs) : fs \in FieldValueSeqs(FieldsIter(item.form, item.fields), 1)}
    ELSE UNION {{Value(i, fs) : fs \in FieldValueSeqs(
                     FieldsIter(VariantOf(item, i).form, VariantOf(item, i).fields), 1)}
                : i \in VariantIndices(item.nvar)}

RawBytes == UNION {[1..n -> 0..2] : n \in 0..(2 * MaxLen + 1)}

NoType == [item |-> NoItem, ser |-> Ok(0), de |-> Ok(0)]
NoRead == ReadErr(0)

(***************************************************************************)
(* Codec actions.                                                          *)
(***************************************************************************)
\* derive(Serialize) on an item: both impls are generated.
DeriveSerialize ==
    /\ cpc = "idle"
    /\ \E item \in CodecItems :
         /\ ty' = [item |-> item, ser |-> impl_serial(item), de |-> impl_deserial(item)]
         /\ cpc' = IF impl_serial(item).ok /\ impl_deserial(item).ok
                   THEN "derived" ELSE "rejected"
    /\ UNCHANGED <<val, bytes, dec, genVars, wrapVars, siteVars>>

\* A value of the type is handed to the generated serial.
Encode ==
    /\ cpc = "derived"
    /\ \E v \in ValuesOf(ty.item) :
         /\ val' = v
         /\ bytes' = RunSerial(Unwrap(ty.ser), ty.item, v)
    /\ cpc' = "encoded"
    /\ UNCHANGED <<ty, dec, genVars, wrapVars, siteVars>>

\* The bytes written are handed to the generated deserial.
Decode ==
    /\ cpc = "encoded"
    /\ dec' = RunDeserial(Unwrap(ty.de), ty.item, bytes, 1)
    /\ cpc' = "decoded"
    /\ UNCHANGED <<ty, val, bytes, genVars, wrapVars, siteVars>>

\* Bytes from outside are handed to the generated deserial.
DecodeRaw ==
    /\ cpc = "derived"
    /\ \E b \in RawBytes :
         /\ bytes' = b
         /\ dec' = RunDeserial(Unwrap(ty.de), ty.item, b, 1)
    /\ cpc' = "rawdecoded"
    /\ UNCHANGED <<ty, val, genVars, wrapVars, siteVars>>

NextCodec ==
    \/ DeriveSerialize
    \/ Encode
    \/ Decode
    \/ DecodeRaw

(***************************************************************************)
(* The exported entry points at run time.  The contract's state type is a  *)
(* struct deriving Serialize with one #[concordium(size_length = 1)]       *)
(* Vec<u8> field, so its encodings differ in length; the state store is    *)
(* the byte string the host keeps for the instance.                        *)
(***************************************************************************)
StateItem == StructItem("named", <<VecField(1)>>)
StateValues == UNION {[1..n -> {0, 1}] : n \in 0..MaxStateLen}
StateSerialImpl == Unwrap(impl_serial(StateItem))
StateDeserialImpl == Unwrap(impl_deserial(StateItem))
StateSerial(s) == RunSerial(StateSerialImpl, StateItem, Value(0, <<s>>))
StateDeserial(buf, pos) == RunDeserial(StateDeserialImpl, StateItem, buf, pos)

EntryPoints ==
    [kind : {"init", "receive"}, payable : BOOLEAN, enable_logger : BOOLEAN,
     low_level : BOOLEAN]
NoEntryPoint ==
    [kind |-> "init", payable |-> FALSE, enable_logger |-> FALSE, low_level |-> FALSE]

Running == [kind |-> "running", code |-> 0]
Returned(code) == [kind |-> "returned", code |-> code]
Trapped == [kind |-> "trapped", code |-> 0]

NoResult == [ok |-> FALSE, tag |-> 0, args |-> <<>>]
Amounts == {0, 1}
Tags == 0..MaxTag

\* What a low_level user function may leave in the store through the raw handle.
LowLevelStores == {<<2, 0>>, StateSerial(<<1>>)}

\* Mutant of WriteAt: the bytes are appended to the store, whatever the position.
WriteAt_Append(st, at, bs) == st \o bs

\* Writing bs at (zero-based) position at: bytes are overwritten, the store
\* grows when needed and is never shortened.
WriteAt(st, at, bs) ==
    [i \in 1..(IF at + Len(bs) > Len(st) THEN at + Len(bs) ELSE Len(st)) |->
        IF i > at /\ i <= at + Len(bs) THEN bs[i - at] ELSE st[i]]

\* `act.tag() as i32`.
AsI32(t) == IF t <= 2147483647 THEN t ELSE (t - 2147483647) - 2147483647 - 2

\* The arguments of the user function call, in order.
UserArgs(cfg) ==
    <<"ctx">>
    \o (IF cfg.payable THEN <<"amount">> ELSE <<>>)
    \o (IF cfg.enable_logger THEN <<"logger">> ELSE <<>>)
    \o (IF cfg.low_level \/ cfg.kind = "receive" THEN <<"state">> ELSE <<>>)

\* The host calls an exported function.  An init call runs on a new instance,
\* whose state store is empty.
HostCall ==
    /\ wpc \in {"idle", "done"}
    /\ \E cfg \in EntryPoints, a \in Amounts :
         /\ wcfg' = cfg
         /\ amount' = a
         /\ store' = IF cfg.kind = "init" THEN <<>> ELSE store
         /\ store0' = store'
    /\ cursor' = 0
    /\ wstate' = <<>>
    /\ ures' = NoResult
    /\ status' = Running
    /\ wlog' = <<>>
    /\ wpc' = "setup"
    /\ UNCHANGED <<genVars, codecVars, siteVars>>

\* Mutant of SetupOptionalArgs: the amount check is left out.
SetupOptionalArgs_NoAmountCheck ==
    /\ wpc = "setup"
    /\ status' = status
    /\ wpc' = "ctx"
    /\ wlog' = IF wcfg.enable_logger THEN Append(wlog, "logger_init") ELSE wlog
    /\ UNCHANGED <<wcfg, amount, store, store0, cursor, wstate, ures, genVars, codecVars, siteVars>>

\* #setup_fn_optional_args: the amount check unless payable, then the logger.
SetupOptionalArgs ==
    /\ wpc = "setup"
    /\ IF ~wcfg.payable /\ amount # 0
       THEN /\ status' = Returned(-1)
            /\ wpc' = "done"
            /\ wlog' = wlog
       ELSE /\ status' = status
            /\ wpc' = "ctx"
            /\ wlog' = IF wcfg.enable_logger THEN Append(wlog, "logger_init") ELSE wlog
    /\ UNCHANGED <<wcfg, amount, store, store0, cursor, wstate, ures, genVars, codecVars, siteVars>>

\* let ctx = ExternContext::open(());
OpenContext ==
    /\ wpc = "ctx"
    /\ wlog' = Append(wlog, "open_ctx")
    /\ wpc' = IF wcfg.kind = "init" /\ ~wcfg.low_level THEN "user" ELSE "open"
    /\ UNCHANGED <<wcfg, amount, store, store0, cursor, wstate, ures, status,
                   genVars, codecVars, siteVars>>

\* Mutant of OpenState: every receive wrapper reads the state after opening it.
OpenState_ReceiveAlwaysGets ==
    /\ wpc = "open"
    /\ cursor' = 0
    /\ wlog' = Append(wlog, "open_state")
    /\ wpc' = IF wcfg.kind = "receive" THEN "get"
              ELSE IF wcfg.low_level THEN "user" ELSE "serial"
    /\ UNCHANGED <<wcfg, amount, store, store0, wstate, ures, status, genVars, codecVars, siteVars>>

\* ContractState::open(()): a handle positioned at the start of the store.
OpenState ==
    /\ wpc = "open"
    /\ cursor' = 0
    /\ wlog' = Append(wlog, "open_state")
    /\ wpc' = IF wcfg.low_level THEN "user"
              ELSE IF wcfg.kind = "receive" THEN "get" ELSE "serial"
    /\ UNCHANGED <<wcfg, amount, store, store0, wstate, ures, status, genVars, codecVars, siteVars>>

\* Mutant of GetState: unreadable state is rejected with -1 instead of a trap.
GetState_Rejects ==
    /\ wpc = "get"
    /\ LET r == StateDeserial(store, cursor + 1) IN
       IF r.ok
       THEN /\ wlog' = Append(wlog, "get")
            /\ wstate' = r.val[1].fields[1]
            /\ cursor' = r.pos - 1
            /\ wpc' = "user"
            /\ status' = status
       ELSE /\ wlog' = Append(wlog, "get_err")
            /\ wstate' = wstate
            /\ cursor' = cursor
            /\ wpc' = "done"
            /\ status' = Returned(-1)
    /\ UNCHANGED <<wcfg, amount, store, store0, ures, genVars, codecVars, siteVars>>

\* if let Ok(mut state) = (&mut state_bytes).get() { .. } else { trap() }
GetState ==
    /\ wpc = "get"
    /\ LET r == StateDeserial(store, cursor + 1) IN
       IF r.ok
       THEN /\ wlog' = Append(wlog, "get")
            /\ wstate' = r.val[1].fields[1]
            /\ cursor' = r.pos - 1
            /\ wpc' = "user"
            /\ status' = status
       ELSE /\ wlog' = Append(wlog, "get_err")
            /\ wstate' = wstate
            /\ cursor' = cursor
            /\ wpc' = "done"
            /\ status' = Trapped
    /\ UNCHANGED <<wcfg, amount, store, store0, ures, genVars, codecVars, siteVars>>

\* Mutant of InvokeUser: a receive wrapper without low_level writes the state
\* back also when the user function returned Err.
InvokeUser_WritesBackOnErr ==
    /\ wpc = "user"
    /\ wlog' = Append(wlog, "user")
    /\ \E ok \in BOOLEAN, tag \in Tags, s \in StateValues, raw \in {store} \cup LowLevelStores :
         /\ ures' = [ok |-> ok, tag |-> IF wcfg.kind = "receive" /\ ok THEN tag ELSE 0,
                     args |-> UserArgs(wcfg)]
         /\ wstate' = IF wcfg.low_level THEN wstate
                      ELSE IF wcfg.kind = "receive" \/ ok THEN s ELSE wstate
         /\ store' = IF wcfg.low_level THEN raw ELSE store
         /\ IF ~ok /\ (wcfg.low_level \/ wcfg.kind = "init")
            THEN status' = Returned(-1) /\ wpc' = "done"
            ELSE IF wcfg.low_level
            THEN /\ status' = Returned(IF wcfg.kind = "init" THEN 0 ELSE AsI32(tag))
                 /\ wpc' = "done"
            ELSE /\ status' = status
                 /\ wpc' = IF wcfg.kind = "init" THEN "open" ELSE "seek"
    /\ UNCHANGED <<wcfg, amount, store0, cursor, genVars, codecVars, siteVars>>

\* The call of the user function and the match on its result.
\*   init:               Ok(state) -> serialize it;  Err(_) -> -1
\*   init, low_level:    Ok(()) -> 0;                Err(_) -> -1
\*   receive:            Ok(act) -> seek, serialize; Err(_) -> -1
\*   receive, low_level: Ok(act) -> act.tag() as i32; Err(_) -> -1
InvokeUser ==
    /\ wpc = "user"
    /\ wlog' = Append(wlog, "user")
    /\ \E ok \in BOOLEAN, tag \in Tags, s \in StateValues, raw \in {store} \cup LowLevelStores :
         /\ ures' = [ok |-> ok, tag |-> IF wcfg.kind = "receive" /\ ok THEN tag ELSE 0,
                     args |-> UserArgs(wcfg)]
         /\ wstate' = IF wcfg.low_level THEN wstate
                      ELSE IF wcfg.kind = "receive" \/ ok THEN s ELSE wstate
         /\ store' = IF wcfg.low_level THEN raw ELSE store
         /\ IF ~ok
            THEN status' = Returned(-1) /\ wpc' = "done"
            ELSE IF wcfg.low_level
            THEN /\ status' = Returned(IF wcfg.kind = "init" THEN 0 ELSE AsI32(tag))
                 /\ wpc' = "done"
            ELSE /\ status' = status
                 /\ wpc' = IF wcfg.kind = "init" THEN "open" ELSE "seek"
    /\ UNCHANGED <<wcfg, amount, store0, cursor, genVars, codecVars, siteVars>>

\* Mutant of SeekStart: the state is re-serialized without seeking first.
SeekStart_NoSeek ==
    /\ wpc = "seek"
    /\ wlog' = wlog /\ cursor' = cursor /\ wpc' = "serial" /\ status' = status
    /\ UNCHANGED <<wcfg, amount, store, store0, wstate, ures, genVars, codecVars, siteVars>>

\* state_bytes.seek(SeekFrom::Start(0)); the host's answer is an input.
SeekStart ==
    /\ wpc = "seek"
    /\ \E seekOk \in BOOLEAN :
         IF seekOk
         THEN /\ wlog' = Append(wlog, "seek")
              /\ cursor' = 0 /\ wpc' = "serial" /\ status' = status
         ELSE /\ wlog' = Append(wlog, "seek_err")
              /\ cursor' = cursor /\ wpc' = "done" /\ status' = Trapped
    /\ UNCHANGED <<wcfg, amount, store, store0, wstate, ures, genVars, codecVars, siteVars>>

\* Mutant of SerialState: success is reported as 0 by receive as well.
SerialState_ReturnsZero ==
    /\ wpc = "serial"
    /\ LET enc == StateSerial(wstate) IN
       \E written \in 0..Len(enc) :
         /\ wlog' = Append(wlog, IF written < Len(enc) THEN "serial_err" ELSE "serial")
         /\ store' = WriteAt(store, cursor, SubSeq(enc, 1, written))
         /\ cursor' = cursor + written
         /\ status' = IF written < Len(enc) THEN Trapped ELSE Returned(0)
    /\ wpc' = "done"
    /\ UNCHANGED <<wcfg, amount, store0, wstate, ures, genVars, codecVars, siteVars>>

\* state.serial(&mut state_bytes): the encoding is written at the cursor; the
\* host may refuse the write after any strict prefix of it.  The log keeps a
\* failed step as "<step>_err".
SerialState ==
    /\ wpc = "serial"
    /\ LET enc == StateSerial(wstate) IN
       \E written \in 0..Len(enc) :
         /\ wlog' = Append(wlog, IF written < Len(enc) THEN "serial_err" ELSE "serial")
         /\ store' = WriteAt(store, cursor, SubSeq(enc, 1, written))
         /\ cursor' = cursor + written
         /\ status' = IF written < Len(enc) THEN Trapped
                      ELSE Returned(IF wcfg.kind = "init" THEN 0 ELSE AsI32(ures.tag))
    /\ wpc' = "done"
    /\ UNCHANGED <<wcfg, amount, store0, wstate, ures, genVars, codecVars, siteVars>>

NextWrap ==
    \/ HostCall
    \/ SetupOptionalArgs
    \/ OpenContext
    \/ OpenState
    \/ GetState
    \/ InvokeUser
    \/ SeekStart
    \/ SerialState

(***************************************************************************)
(* The attribute macros #[init], #[receive] and #[contract_state] at       *)
(* generation time.  A site's attribute is a comma-separated list of       *)
(* syn::Meta; a literal is its kind and, for a string, its value.  A       *)
(* generated name is the sequence of the pieces format! joins.  A          *)
(* diagnostic is (span, message, the argument list the message shows).     *)
(***************************************************************************)
MaxSiteAttrs == 3   \* metas in one site attribute
MaxArgs == 4        \* declared arguments of the user function

SiteStr(s) == [k |-> "str", v |-> s]
SiteInt == [k |-> "int", v |-> "1"]
SiteNoLit == [k |-> "none", v |-> ""]
SitePath(n) == [name |-> n, form |-> "path", lit |-> SiteNoLit]
SiteList(n) == [name |-> n, form |-> "list", lit |-> SiteNoLit]
SiteNV(n, l) == [name |-> n, form |-> "nv", lit |-> l]
SiteError(span, msg, args) == <<[span |-> span, msg |-> msg, args |-> args]>>

\* The entries of the list whose path is `name`, in order.
RECURSIVE NamedAt(_, _, _)
NamedAt(attrs, name, i) ==
    IF i > Len(attrs) THEN <<>>
    ELSE (IF attrs[i].name = name THEN <<i>> ELSE <<>>) \o NamedAt(attrs, name, i + 1)

\* Mutant of get_attribute_value: the entries without a string value are skipped.
get_attribute_value_SkipMalformed(attrs, name) ==
    IF \E i \in 1..Len(attrs) :
           attrs[i].name = name /\ attrs[i].form = "nv" /\ attrs[i].lit.k = "str"
    THEN Ok(Some(attrs[CHOOSE i \in 1..Len(attrs) :
                     /\ attrs[i].name = name /\ attrs[i].form = "nv" /\ attrs[i].lit.k = "str"
                     /\ \A j \in 1..(i - 1) :
                            ~(attrs[j].name = name /\ attrs[j].form = "nv"
                              /\ attrs[j].lit.k = "str")].lit.v))
    ELSE Ok(None)

\* get_attribute_value: the loop returns at the first entry named `name`.
get_attribute_value(attrs, name) ==
    Bind(NamedAt(attrs, name, 1), LAMBDA at :
        IF at = <<>> THEN Ok(None)
        ELSE IF attrs[at[1]].form = "nv"
        THEN IF attrs[at[1]].lit.k = "str"
             THEN Ok(Some(attrs[at[1]].lit.v))
             ELSE Err(SiteError(at[1], "The attribute must be a string literal.", <<>>))
        ELSE Err(SiteError(at[1], "The attribute must have a string literal value.", <<>>)))

\* Mutant of contract_function_optional_args_tokens: the logger comes first.
contract_function_optional_args_tokens_LoggerFirst(attrs) ==
    (IF contains_attribute(attrs, "enable_logger")
     THEN <<"logger: &mut impl HasLogger">> ELSE <<>>)
    \o (IF contains_attribute(attrs, "payable") THEN <<"amount: Amount">> ELSE <<>>)

\* contract_function_optional_args_tokens, at generation time: what it pushes
\* onto required_args.
contract_function_optional_args_tokens(attrs) ==
    (IF contains_attribute(attrs, "payable") THEN <<"amount: Amount">> ELSE <<>>)
    \o (IF contains_attribute(attrs, "enable_logger")
        THEN <<"logger: &mut impl HasLogger">> ELSE <<>>)

\* Mutant of InitRequiredArgs: a state argument is required in every case.
InitRequiredArgs_AlwaysState(attrs) ==
    <<"ctx: &impl HasInitContext">>
    \o contract_function_optional_args_tokens(attrs)
    \o <<"state: &mut ContractState">>

\* required_args of init_worker.
InitRequiredArgs(attrs) ==
    <<"ctx: &impl HasInitContext">>
    \o contract_function_optional_args_tokens(attrs)
    \o (IF contains_attribute(attrs, "low_level")
        THEN <<"state: &mut ContractState">> ELSE <<>>)

\* required_args of receive_worker.
ReceiveRequiredArgs(attrs) ==
    <<"ctx: &impl HasReceiveContext">>
    \o contract_function_optional_args_tokens(attrs)
    \o (IF contains_attribute(attrs, "low_level")
        THEN <<"state: &mut ContractState">> ELSE <<"state: &mut MyState">>)

ArgCountError(required_args) ==
    Err(SiteError(0, "Incorrect number of function arguments, the expected arguments are",
                  required_args))

\* Mutant of InitExportName: the function's identifier is used.
InitExportName_FromIdent(contract_name, fn_name) == <<"init_", fn_name>>

\* wasm_export_fn_name / rust_export_fn_name.
InitExportName(contract_name, fn_name) == <<"init_", contract_name>>
ReceiveExportName(contract_name, name) == <<contract_name, ".", name>>
RustExportName(fn_name) == <<"export_", fn_name>>

\* The flags the generated wrapper is built from.
WrapperFlags(kind, attrs) ==
    [kind |-> kind,
     payable |-> contains_attribute(attrs, "payable"),
     enable_logger |-> contains_attribute(attrs, "enable_logger"),
     low_level |-> contains_attribute(attrs, "low_level")]

\* An exported function: its #[export_name] and its Rust identifier.
Export(export_name, rust_name) == [export_name |-> export_name, rust_name |-> rust_name]

\* contract_function_schema_tokens: with the build-schema feature and a
\* `parameter`, one more exported function; nothing otherwise.
contract_function_schema_tokens(parameter_option, rust_name, wasm_name, build_schema) ==
    IF build_schema /\ parameter_option # None
    THEN <<Export(<<"concordium_schema_function_">> \o wasm_name,
                  <<"concordium_schema_function_">> \o rust_name)>>
    ELSE <<>>

\* What a successful init / receive expansion holds: the wrapper, the
\* arguments its call of the user function passes, the schema function.
Wrapper(flags, export, required_args, schema) ==
    [flags |-> flags, exports |-> <<export>> \o schema, required_args |-> required_args]

\* The part of init_worker / receive_worker after the names are known.
WorkerBody(kind, attrs, item, wasm_name, required_args, build_schema) ==
    IF item.kind # "fn"
    THEN Err(SiteError(0, "can only be applied to functions.", <<>>))
    ELSE IF item.nargs # Len(required_args)
    THEN ArgCountError(required_args)
    ELSE Bind(get_attribute_value(attrs, "parameter"), LAMBDA parameter_option :
        IF ~parameter_option.ok THEN Err(parameter_option.err)
        ELSE Ok(Wrapper(WrapperFlags(kind, attrs),
                        Export(wasm_name, RustExportName(item.ident)),
                        required_args,
                        contract_function_schema_tokens(Unwrap(parameter_option),
                            RustExportName(item.ident), wasm_name, build_schema))))

init_worker(attrs, item, build_schema) ==
    Bind(get_attribute_value(attrs, "contract"), LAMBDA contract_name :
        IF ~contract_name.ok THEN Err(contract_name.err)
        ELSE IF Unwrap(contract_name) = None
        THEN Err(SiteError(0, "A name for the contract must be provided, using the contract attribute.", <<>>))
        ELSE WorkerBody("init", attrs, item,
                        InitExportName(Unwrap(contract_name)[1], item.ident),
                        InitRequiredArgs(attrs), build_schema))

receive_worker(attrs, item, build_schema) ==
    Bind(get_attribute_value(attrs, "contract"), LAMBDA contract_name :
        IF ~contract_name.ok THEN Err(contract_name.err)
        ELSE IF Unwrap(contract_name) = None
        THEN Err(SiteError(0, "The name of the associated contract must be provided, using the 'contract' attribute.", <<>>))
        ELSE Bind(get_attribute_value(attrs, "name"), LAMBDA name :
            IF ~name.ok THEN Err(name.err)
            ELSE IF Unwrap(name) = None
            THEN Err(SiteError(0, "A name for the receive function must be provided, using the 'name' attribute.", <<>>))
            ELSE WorkerBody("receive", attrs, item,
                            ReceiveExportName(Unwrap(contract_name)[1], Unwrap(name)[1]),
                            ReceiveRequiredArgs(attrs), build_schema)))

\* contract_state: with the build-schema feature the state schema function is
\* added to the item; without it the item is returned as it is.
contract_state_worker(attrs, item, build_schema) ==
    IF ~build_schema THEN Ok(<<>>)
    ELSE IF item.kind # "struct"
    THEN Err(SiteError(0, "#[contract_state] only supports structs, enums and type aliases.", <<>>))
    ELSE Bind(get_attribute_value(attrs, "contract"), LAMBDA contract_name :
        IF ~contract_name.ok THEN Err(contract_name.err)
        ELSE IF Unwrap(contract_name) = None
        THEN Err(SiteError(0, "A name of the contract must be provided, using the 'contract' attribute.", <<>>))
        ELSE Ok(<<Export(<<"concordium_schema_state_", Unwrap(contract_name)[1]>>,
                         <<"concordium_schema_state_", item.ident>>)>>))

(***************************************************************************)
(* Inputs and actions of the site specification.                           *)
(***************************************************************************)
SiteAlphabet ==
    {SiteNV("contract", SiteStr("c")), SiteNV("contract", SiteStr("d")),
     SitePath("contract"),
     SiteNV("name", SiteStr("n")), SiteNV("name", SiteInt), SiteList("name"),
     SiteNV("parameter", SiteStr("P")),
     SitePath("payable"), SitePath("enable_logger"), SitePath("low_level")}
SiteAttrLists == UNION {[1..n -> SiteAlphabet] : n \in 0..MaxSiteAttrs}
SiteItems ==
    {[kind |-> "fn", ident |-> "my_fn", nargs |-> a] : a \in 1..MaxArgs}
    \cup {[kind |-> "struct", ident |-> "MyState", nargs |-> 0]}
SiteNames == {"contract", "name", "parameter"}

NoSiteCall == [fn |-> "none", target |-> "", build_schema |-> FALSE, res |-> Ok(0)]
SiteCall(fn, target, build_schema, res) ==
    [fn |-> fn, target |-> target, build_schema |-> build_schema, res |-> res]

SiteGetAttributeValue ==
    /\ sout.fn = "none"
    /\ \E name \in SiteNames :
         sout' = SiteCall("get_attribute_value", name, FALSE,
                          get_attribute_value(sattrs, name))
    /\ UNCHANGED <<sattrs, sitem, genVars, codecVars, wrapVars>>

SiteInit ==
    /\ sout.fn = "none"
    /\ \E b \in BOOLEAN : sout' = SiteCall("init", "", b, init_worker(sattrs, sitem, b))
    /\ UNCHANGED <<sattrs, sitem, genVars, codecVars, wrapVars>>

SiteReceive ==
    /\ sout.fn = "none"
    /\ \E b \in BOOLEAN : sout' = SiteCall("receive", "", b, receive_worker(sattrs, sitem, b))
    /\ UNCHANGED <<sattrs, sitem, genVars, codecVars, wrapVars>>

SiteContractState ==
    /\ sout.fn = "none"
    /\ \E b \in BOOLEAN :
         sout' = SiteCall("contract_state", "", b, contract_state_worker(sattrs, sitem, b))
    /\ UNCHANGED <<sattrs, sitem, genVars, codecVars, wrapVars>>

NextSite ==
    \/ SiteGetAttributeValue
    \/ SiteInit
    \/ SiteReceive
    \/ SiteContractState

(***************************************************************************)
(* The specifications.                                                     *)
(***************************************************************************)
GenIdle == gout = NoCall
CodecIdle == ty = NoType /\ val = Value(0, <<>>) /\ bytes = <<>> /\ dec = NoRead /\ cpc = "idle"
WrapIdle ==
    /\ wcfg = NoEntryPoint /\ wpc = "idle" /\ amount = 0 /\ store = <<>> /\ store0 = <<>>
    /\ cursor = 0 /\ wstate = <<>> /\ ures = NoResult /\ status = Running /\ wlog = <<>>

SiteIdle == sattrs = <<>> /\ sitem = [kind |-> "fn", ident |-> "my_fn", nargs |-> 1] /\ sout = NoSiteCall

InitGen == fattrs \in AttrLists /\ GenIdle /\ CodecIdle /\ WrapIdle /\ SiteIdle
InitCodec == fattrs = <<>> /\ GenIdle /\ CodecIdle /\ WrapIdle /\ SiteIdle
InitWrap == fattrs = <<>> /\ GenIdle /\ CodecIdle /\ WrapIdle /\ SiteIdle
InitSite ==
    /\ fattrs = <<>> /\ GenIdle /\ CodecIdle /\ WrapIdle
    /\ sattrs \in SiteAttrLists /\ sitem \in SiteItems /\ sout = NoSiteCall

SpecGen == InitGen /\ [][NextGen]_vars
SpecCodec == InitCodec /\ [][NextCodec]_vars
SpecWrap == InitWrap /\ [][NextWrap]_vars
\* An exported function, once called, runs to its end: its body is
\* straight-line code, so a call that has a next statement executes it.  No
\* fairness is put on the host calling again.
WrapperStep ==
    \/ SetupOptionalArgs
    \/ OpenContext
    \/ OpenState
    \/ GetState
    \/ InvokeUser
    \/ SeekStart
    \/ SerialState
SpecWrapLive == InitWrap /\ [][NextWrap]_vars /\ WF_vars(WrapperStep)
SpecSite == InitSite /\ [][NextSite]_vars

(***************************************************************************)
(* Claims about the entry-point wrappers (checked under SpecWrap).         *)
(***************************************************************************)
StoreSteps == {"open_state", "get", "get_err", "seek", "seek_err", "serial", "serial_err"}
Logged(e) == \E i \in 1..Len(wlog) : wlog[i] = e
StoreUntouched == store = store0 /\ \A i \in 1..Len(wlog) : wlog[i] \notin StoreSteps
GatePassed == wcfg.payable \/ amount = 0
Faulted == Logged("get_err") \/ Logged("seek_err") \/ Logged("serial_err")

\* C1: a call to an entry point generated without `payable` that carries a
\* non-zero amount never gets past the amount check: it ends with status -1,
\* the user function is not invoked and the state store is neither opened,
\* read nor written (init and receive, low_level or not).
C1_AmountGate ==
    (wpc # "idle" /\ ~wcfg.payable /\ amount # 0) =>
        /\ wpc \in {"setup", "done"}
        /\ wpc = "done" => status = Returned(-1)
        /\ ~Logged("user")
        /\ StoreUntouched

C1_Witness ==
    /\ wpc = "done" /\ wcfg.kind = "receive" /\ ~wcfg.payable /\ wcfg.low_level
    /\ amount = 1 /\ store0 # <<>> /\ status = Returned(-1)

\* C2: when the amount check passes and the call returns a status (no trap),
\* the user function was invoked and the status follows from its result alone:
\* init returns 0 for Ok (without low_level: after the returned state was
\* written in full) and -1 for Err; receive returns the action's tag for
\* Ok(action) and -1 for Err.
C2_StatusFromUserResult ==
    (wpc = "done" /\ GatePassed /\ status.kind = "returned") =>
        /\ Logged("user")
        /\ status.code = (IF ~ures.ok THEN -1
                          ELSE IF wcfg.kind = "init" THEN 0 ELSE ures.tag)
        /\ (wcfg.kind = "init" /\ ~wcfg.low_level /\ ures.ok) =>
               (Logged("serial") /\ store = StateSerial(wstate))

C2_Witness ==
    /\ wpc = "done" /\ wcfg.kind = "receive" /\ ~wcfg.low_level /\ wcfg.payable
    /\ amount = 1 /\ ures.ok /\ ures.tag = MaxTag /\ status = Returned(MaxTag)

\* C3: in a wrapper without low_level, a failed serialization of init's
\* returned state, a failed deserialization of receive's existing state (the
\* user function is then never invoked) and a failed seek or re-serialization
\* after receive's user function each end the call by a trap: execution stops
\* there and no status is returned.
C3_FaultsTrap ==
    Faulted =>
        /\ ~wcfg.low_level
        /\ wpc = "done" /\ status = Trapped
        /\ wlog[Len(wlog)] \in {"get_err", "seek_err", "serial_err"}
        /\ Logged("get_err") => ~Logged("user")

C3_Witness ==
    /\ wpc = "done" /\ wcfg.kind = "receive" /\ ~wcfg.low_level
    /\ Logged("user") /\ ures.ok /\ Logged("seek") /\ Logged("serial_err")
    /\ status = Trapped

(***************************************************************************)
(* Claims about the generated encoder and decoder (checked under           *)
(* SpecCodec).                                                             *)
(***************************************************************************)
\* What an unsigned integer of w bytes can count (lengths here are below 2^31).
Fits(count, w) ==
    CASE w = 1 -> count <= 255
      [] w = 2 -> count <= 65535
      [] OTHER -> TRUE

\* The length-prefixed fields of a value hold no more elements than their
\* prefix can count.
RECURSIVE FieldsFit(_, _, _)
FieldsFit(fields, vals, n) ==
    IF n > Len(fields) THEN TRUE
    ELSE LET t == impl_serial_field(fields[n].attrs) IN
         /\ (t.ok /\ Unwrap(t).kind # "delegate") =>
                Fits(ElementCount(fields[n].fty, vals[n]), Unwrap(t).width)
         /\ FieldsFit(fields, vals, n + 1)

ValidValue(item, v) ==
    IF item.data = "struct"
    THEN FieldsFit(FieldsIter(item.form, item.fields), v.fields, 1)
    ELSE FieldsFit(FieldsIter(VariantOf(item, v.variant).form,
                              VariantOf(item, v.variant).fields), v.fields, 1)

\* C4: for every supported shape (struct with named, unnamed or no fields; enum
\* with a 1-byte or a 2-byte tag, its variants with named, unnamed or no
\* fields) and every valid value x (each length-prefixed container holds no
\* more elements than its prefix can count), the generated decoder applied to
\* the bytes the generated encoder wrote for x succeeds, yields x and consumes
\* exactly those bytes.
C4_RoundTrip ==
    (cpc = "decoded" /\ ValidValue(ty.item, val)) =>
        /\ dec.ok
        /\ dec.val[1] = val
        /\ dec.pos = Len(bytes) + 1

C4_Witness ==
    /\ cpc = "decoded" /\ ty.item.data = "enum" /\ ty.item.nvar = 257
    /\ val.variant = 256 /\ Len(val.fields) = 2 /\ Len(val.fields[2]) = 255
    /\ dec.ok /\ dec.val[1] = val

\* C5: for an enum of n variants the generated encoder and the generated
\* decoder both use a 1-byte tag when n <= 256 and a 2-byte tag when
\* 257 <= n <= 65536; the tag written is the variant's zero-based declaration
\* index, little endian, and fits the tag; for n >= 65537 neither derive
\* generates code.
C5_TagWidth ==
    (cpc # "idle" /\ ty.item.data = "enum") =>
        LET n == ty.item.nvar IN
        IF n >= 65537
        THEN ~ty.ser.ok /\ ~ty.de.ok /\ cpc = "rejected"
        ELSE /\ ty.ser.ok /\ ty.de.ok
             /\ Unwrap(ty.ser).tagw = (IF n <= 256 THEN 1 ELSE 2)
             /\ Unwrap(ty.de).tagw = (IF n <= 256 THEN 1 ELSE 2)
             /\ cpc \in {"encoded", "decoded"} =>
                    /\ val.variant < (IF n <= 256 THEN 256 ELSE 65536)
                    /\ IF n <= 256
                       THEN bytes[1] = val.variant
                       ELSE bytes[1] = val.variant % 256 /\ bytes[2] = val.variant \div 256
             /\ (cpc = "rawdecoded" /\ dec.ok) =>
                    dec.val[1].variant =
                        (IF n <= 256 THEN bytes[1] ELSE bytes[1] + 256 * bytes[2])

C5_Witness ==
    /\ cpc = "encoded" /\ ty.item.data = "enum" /\ ty.item.nvar = 65536
    /\ val.variant = 65535 /\ bytes = <<255, 255>>

\* A struct with one named field, and that field's generated steps.
OneField ==
    /\ cpc \in {"encoded", "decoded", "rawdecoded"}
    /\ ty.item.data = "struct" /\ ty.item.form = "named" /\ Len(ty.item.fields) = 1
TheField == ty.item.fields[1]
SerTok == Unwrap(ty.ser).steps[1].tok
DeTok == Unwrap(ty.de).steps[1].tok
BytesPerElement(kind) == IF kind = "map" THEN 2 ELSE 1

\* C6: encoding a length-prefixed field always writes a count equal to the
\* number of elements written (the encoder fails or truncates the container
\* when it holds more than the prefix can count), and decoding the written
\* bytes succeeds on exactly those bytes.  The generated encoder does not fail
\* and writes every element after the low-order bytes of the count.
C6_CountMatchesElements ==
    (OneField /\ cpc \in {"encoded", "decoded"} /\ SerTok.kind # "delegate") =>
        /\ FromLE(SubSeq(bytes, 1, SerTok.width)) * BytesPerElement(SerTok.kind)
               = Len(bytes) - SerTok.width
        /\ cpc = "decoded" => (dec.ok /\ dec.pos = Len(bytes) + 1)

\* Raw input for a length-prefixed map or set field that holds its count and
\* as many entries as the count says; its keys in input order.
RawCount == FromLE(SubSeq(bytes, 1, DeTok.width))
RawComplete ==
    /\ Len(bytes) >= DeTok.width
    /\ Len(bytes) >= DeTok.width + RawCount * BytesPerElement(DeTok.kind)
RawKeys ==
    [i \in 1..RawCount |-> bytes[DeTok.width + BytesPerElement(DeTok.kind) * (i - 1) + 1]]
RawMapSetField == OneField /\ cpc = "rawdecoded" /\ DeTok.kind \in {"map", "set"}
Flagged(attrs) == \E i \in 1..Len(attrs) : attrs[i].name = "ensure_ordered"
Increasing(ks) == \A i, j \in 1..Len(ks) : i < j => ks[i] < ks[j]
Distinct(ks) == \A i, j \in 1..Len(ks) : i < j => ks[i] # ks[j]

\* C7: for a field decoded as a length-prefixed map or set, the generated
\* decoder calls the order-checking helper iff `ensure_ordered` is present on
\* the field; with the flag, input whose keys are not strictly increasing
\* (two equal adjacent keys included) is answered by an error value, and
\* without the flag the order is not checked.
C7_OrderCheckIffFlag ==
    RawMapSetField =>
        /\ DeTok.order_check <=> Flagged(TheField.attrs)
        /\ (RawComplete /\ Flagged(TheField.attrs)) =>
               (dec.ok <=> Increasing(RawKeys))
        /\ (RawComplete /\ ~Flagged(TheField.attrs) /\ Distinct(RawKeys)) => dec.ok

C7_Witness ==
    /\ RawMapSetField /\ Flagged(TheField.attrs) /\ RawComplete
    /\ RawCount = 2 /\ RawKeys[1] = RawKeys[2] /\ ~dec.ok

\* The container a sequence of distinct keys (and their values) stands for.
RawContainer ==
    IF DeTok.kind = "set" THEN {RawKeys[i] : i \in 1..RawCount}
    ELSE [k \in {RawKeys[i] : i \in 1..RawCount} |->
             bytes[DeTok.width + 2 * ((CHOOSE i \in 1..RawCount : RawKeys[i] = k) - 1) + 2]]

\* C8 as stated: without `ensure_ordered`, input with keys in any order and
\* input with duplicate keys both decode successfully.
C8_Original_DuplicatesAccepted ==
    (RawMapSetField /\ ~Flagged(TheField.attrs) /\ RawComplete) => dec.ok

\* C8, amended: without `ensure_ordered`, input whose keys are distinct decodes
\* successfully in any key order, to the container holding exactly those
\* entries; input that repeats a key is answered by an error value
\* (uniqueness is still ensured).
C8_AnyOrderUniqueKeys ==
    (RawMapSetField /\ ~Flagged(TheField.attrs) /\ RawComplete) =>
        /\ dec.ok <=> Distinct(RawKeys)
        /\ dec.ok => (dec.val[1].fields[1] = RawContainer
                      /\ dec.pos = DeTok.width + RawCount * BytesPerElement(DeTok.kind) + 1)

C8_Witness ==
    /\ RawMapSetField /\ ~Flagged(TheField.attrs) /\ RawComplete /\ DeTok.kind = "map"
    /\ RawCount = 2 /\ RawKeys[1] > RawKeys[2] /\ dec.ok

(***************************************************************************)
(* Claims about the field-attribute parser and the per-field generators    *)
(* (checked under SpecGen).                                                *)
(***************************************************************************)
\* The positions where attribute `name` occurs with a value on the field.
Occurrences(name) ==
    {i \in 1..Len(fattrs) : fattrs[i].form = "nv" /\ fattrs[i].name = name}
AllSupported ==
    \A i \in 1..Len(fattrs) : fattrs[i].name \in
        {"size_length", "map_size_length", "set_size_length", "string_size_length",
         "ensure_ordered"}
Spans(err) == {err[i].span : i \in 1..Len(err)}
Least(S) == CHOOSE i \in S : \A j \in S : i <= j
DuplicateLookup ==
    /\ gout.fn = "find_field_attribute_value"
    /\ AllSupported
    /\ Cardinality(Occurrences(gout.target)) >= 2

\* C9 as stated: the lookup of a length attribute given k >= 2 times with a
\* value fails with one error that identifies every one of the k occurrences.
C9_Original_EveryOccurrence ==
    DuplicateLookup =>
        (~gout.res.ok /\ Spans(gout.res.err) = Occurrences(gout.target))

\* C9, amended: on a field whose annotations are all supported, the lookup of
\* a length attribute given k >= 2 times with a value fails with one combined
\* error of k - 1 messages, one at each occurrence after the first; the first
\* occurrence is not identified (for k = 2 the error names the second only).
C9_EveryOccurrenceAfterFirst ==
    DuplicateLookup =>
        /\ ~gout.res.ok
        /\ Len(gout.res.err) = Cardinality(Occurrences(gout.target)) - 1
        /\ Spans(gout.res.err) =
               Occurrences(gout.target) \ {Least(Occurrences(gout.target))}
        /\ \A i \in 1..Len(gout.res.err) : gout.res.err[i].msg = OnceMsg

C9_Witness ==
    /\ DuplicateLookup /\ gout.target = "size_length"
    /\ Occurrences("size_length") = {1, 2, 3}
    /\ Spans(gout.res.err) = {2, 3}

\* The length attributes in priority order, and the first of them that the
\* field carries with a value.
Priority(name) ==
    CASE name = "size_length" -> 1
      [] name = "map_size_length" -> 2
      [] name = "set_size_length" -> 3
      [] name = "string_size_length" -> 4
LengthNames == {"size_length", "map_size_length", "set_size_length", "string_size_length"}
Present == {n \in LengthNames : Occurrences(n) # {}}
Winner == CHOOSE n \in Present : \A m \in Present : Priority(n) <= Priority(m)
\* The winner is given once, with an integer value.
WinnerIsInt ==
    /\ Present # {}
    /\ Cardinality(Occurrences(Winner)) = 1
    /\ fattrs[Least(Occurrences(Winner))].lit.k = "int"
WinnerWidth == fattrs[Least(Occurrences(Winner))].lit.v
\* Some length attribute is given with an integer outside {1, 2, 4, 8}.
InvalidWidthPresent ==
    \E i \in 1..Len(fattrs) :
        /\ fattrs[i].form = "nv" /\ fattrs[i].name \in LengthNames
        /\ fattrs[i].lit.k = "int" /\ fattrs[i].lit.v \notin {1, 2, 4, 8}
\* The item of a derive call holds the field carrying fattrs.
ItemHoldsField ==
    \/ gout.item.data = "struct" /\ gout.item.form # "unit"
    \/ gout.item.data = "enum" /\ gout.item.nvar >= 2

SiteHas(name) == \E i \in 1..Len(sattrs) : sattrs[i].name = name
\* The first entry of the site named `name` (0: there is none).
SiteFirst(name) ==
    IF SiteHas(name)
    THEN CHOOSE i \in 1..Len(sattrs) :
             sattrs[i].name = name /\ \A j \in 1..(i - 1) : sattrs[j].name # name
    ELSE 0
SiteIsString(i) == sattrs[i].form = "nv" /\ sattrs[i].lit.k = "str"
\* The valued option is given as a string (as far as the lookup sees).
SiteGiven(name) == SiteHas(name) /\ SiteIsString(SiteFirst(name))
SiteAbsentOrGiven(name) == ~SiteHas(name) \/ SiteGiven(name)
\* An entry-point expansion on a function whose valued options are well formed.
EntryPointCall ==
    /\ sout.fn \in {"init", "receive"}
    /\ sitem.kind = "fn"
    /\ SiteGiven("contract")
    /\ sout.fn = "receive" => SiteGiven("name")
    /\ SiteAbsentOrGiven("parameter")
ArgName(s) ==
    CASE s \in {"ctx: &impl HasInitContext", "ctx: &impl HasReceiveContext"} -> "ctx"
      [] s = "amount: Amount" -> "amount"
      [] s = "logger: &mut impl HasLogger" -> "logger"
      [] s \in {"state: &mut ContractState", "state: &mut MyState"} -> "state"
ArgNames(args) == [i \in 1..Len(args) |-> ArgName(args[i])]
\* A state argument is expected by every receive and by a low_level init.
StateExpected == sout.fn = "receive" \/ SiteHas("low_level")
ExpectedArgs ==
    <<"ctx">>
    \o (IF SiteHas("payable") THEN <<"amount">> ELSE <<>>)
    \o (IF SiteHas("enable_logger") THEN <<"logger">> ELSE <<>>)
    \o (IF StateExpected THEN <<"state">> ELSE <<>>)

\* C11: the expansion of an init or receive wrapper (on a function, with well
\* formed valued options) fails iff the declared argument count differs from
\* the number of expected arguments, and the message then lists the expected
\* arguments in call order: ctx, amount iff payable, logger iff enable_logger,
\* state when a state argument is expected.
C11_ArgCount ==
    EntryPointCall =>
        /\ ~sout.res.ok <=> sitem.nargs # Len(ExpectedArgs)
        /\ ~sout.res.ok =>
               /\ Len(sout.res.err) = 1
               /\ ArgNames(sout.res.err[1].args) = ExpectedArgs

\* A payable init declared with only the context.
C11_Witness ==
    /\ EntryPointCall /\ sout.fn = "init"
    /\ SiteHas("payable") /\ ~SiteHas("enable_logger") /\ ~SiteHas("low_level")
    /\ sitem.nargs = 1
    /\ ~sout.res.ok /\ ArgNames(sout.res.err[1].args) = <<"ctx", "amount">>

FlagCount(name) == IF SiteHas(name) THEN 1 ELSE 0
GeneratedEntryPoint == EntryPointCall /\ sout.res.ok
RequiredNames == ArgNames(Unwrap(sout.res).required_args)

\* C12 as stated: every entry point, init as well as receive, with or without
\* low_level, requires 1 + [payable] + [enable_logger] + 1 arguments, the
\* last one being the state.
C12_Original_StateAlwaysExpected ==
    GeneratedEntryPoint =>
        /\ sitem.nargs = 1 + FlagCount("payable") + FlagCount("enable_logger") + 1
        /\ RequiredNames[Len(RequiredNames)] = "state"

\* C12, amended: the required argument count is 1 (context) + 1 if payable
\* + 1 if enable_logger, + 1 (state, always the last one) for every receive
\* and for a low_level init.  An init without low_level takes no state
\* argument.
C12_StateExpectedUnlessPlainInit ==
    GeneratedEntryPoint =>
        /\ sitem.nargs = 1 + FlagCount("payable") + FlagCount("enable_logger")
                           + (IF sout.fn = "receive" \/ SiteHas("low_level") THEN 1 ELSE 0)
        /\ Len(RequiredNames) = sitem.nargs
        /\ RequiredNames[1] = "ctx"
        /\ \A i \in 1..Len(RequiredNames) :
               RequiredNames[i] = "state" <=>
                   /\ i = Len(RequiredNames)
                   /\ (sout.fn = "receive" \/ SiteHas("low_level"))

\* An init without low_level generated for a function of the context and the amount.
C12_Witness ==
    /\ GeneratedEntryPoint /\ sout.fn = "init" /\ ~SiteHas("low_level")
    /\ SiteHas("payable") /\ sitem.nargs = 2
    /\ RequiredNames = <<"ctx", "amount">>

(***************************************************************************)
(* Further claims about the derives (checked under SpecGen).               *)
(***************************************************************************)
\* The field's annotations do not validate: its own generators report an error.
FieldInvalid == ~impl_serial_field(fattrs).ok \/ ~impl_deserial_field(fattrs).ok
DeriveCall ==
    /\ gout.fn \in {"impl_serial", "impl_deserial", "serialize_derive"}
    /\ ItemHoldsField

\* C13: for every derive and every shape, a field-attribute validation error
\* on a field of the item makes the derive fail; it never returns code.
C13_FieldErrorFailsDerive ==
    (DeriveCall /\ FieldInvalid) => ~gout.res.ok

(***************************************************************************)
(* Further claims about the attribute macros (checked under SpecSite).     *)
(***************************************************************************)
\* The entries giving the valued option `name` a string value.
SiteValues(name) ==
    {i \in 1..Len(sattrs) : sattrs[i].name = name /\ SiteIsString(i)}
\* The valued options an init / receive site reads.
OptionsRead == IF sout.fn = "receive" THEN {"contract", "name", "parameter"}
               ELSE {"contract", "parameter"}

\* C14: at an init or receive site, a valued option given more than once is a
\* validation error: the expansion does not succeed.
C14_DuplicateOptionRejected ==
    (/\ sout.fn \in {"init", "receive"}
     /\ \E name \in OptionsRead : Cardinality(SiteValues(name)) >= 2)
    => ~sout.res.ok

(***************************************************************************)
(* Further claims about the generated codec (checked under SpecCodec).     *)
(***************************************************************************)
\* An enum's decoder was handed bytes that hold at least the tag.
RawEnum ==
    /\ cpc = "rawdecoded" /\ ty.item.data = "enum"
    /\ Len(bytes) >= DeserialTagWidth(ty.item.nvar)
RawTag == FromLE(SubSeq(bytes, 1, DeserialTagWidth(ty.item.nvar)))
\* The variant with declaration index i.
DeclaredVariant(i) == ty.item.vdecl[(i % Len(ty.item.vdecl)) + 1]
\* The fields in declaration order, each read by its own generated code.
RECURSIVE ReadInOrder(_, _, _, _)
ReadInOrder(fields, buf, pos, n) ==
    IF n > Len(fields) THEN ReadOk(<<>>, pos)
    ELSE Bind(RunDeserialField(Unwrap(impl_deserial_field(fields[n].attrs)),
                               fields[n].fty, buf, pos), LAMBDA r :
             IF ~r.ok THEN ReadErr(r.pos)
             ELSE Bind(ReadInOrder(fields, buf, r.pos, n + 1), LAMBDA rest :
                 IF ~rest.ok THEN ReadErr(rest.pos)
                 ELSE ReadOk(<<r.val[1]>> \o rest.val[1], rest.pos)))
VariantRead ==
    ReadInOrder(FieldsIter(DeclaredVariant(RawTag).form, DeclaredVariant(RawTag).fields),
                bytes, DeserialTagWidth(ty.item.nvar) + 1, 1)

\* C15: decoding an enum of n variants reads the tag first; a tag >= n gives
\* an error value with nothing read after the tag; a tag i < n decodes
\* exactly the fields of the variant declared i-th, in declaration order.
C15_EnumTagDispatch ==
    RawEnum =>
        IF RawTag >= ty.item.nvar
        THEN ~dec.ok /\ dec.pos = DeserialTagWidth(ty.item.nvar) + 1
        ELSE /\ dec.ok = VariantRead.ok
             /\ dec.pos = VariantRead.pos
             /\ dec.ok => dec.val[1] = [variant |-> RawTag, fields |-> VariantRead.val[1]]

\* A two-variant enum handed the tag 2.
C15_Witness ==
    /\ RawEnum /\ ty.item.nvar = 2 /\ RawTag = 2 /\ Len(bytes) > 1
    /\ ~dec.ok /\ dec.pos = 2

\* A tag in range whose variant has two fields, both read.
C15_WitnessInRange ==
    /\ RawEnum /\ ty.item.nvar = 3 /\ RawTag = 1 /\ dec.ok
    /\ Len(dec.val[1].fields) = 2

(***************************************************************************)
(* Exported names (checked under SpecSite).                                *)
(***************************************************************************)
SiteValue(name) == sattrs[SiteFirst(name)].lit.v
Generated == sout.fn \in {"init", "receive", "contract_state"} /\ sout.res.ok
ExportsOf ==
    IF sout.fn = "contract_state" THEN Unwrap(sout.res) ELSE Unwrap(sout.res).exports
EntryExportName ==
    IF sout.fn = "init" THEN <<"init_", SiteValue("contract")>>
    ELSE <<SiteValue("contract"), ".", SiteValue("name")>>
Pieces(name) == {name[i] : i \in 1..Len(name)}

\* C16: exported names come from the attribute values only: init_<contract>,
\* <contract>.<name>, concordium_schema_function_<exported name of the entry
\* point>, concordium_schema_state_<contract>; the identifier of the annotated
\* item is in no exported name.
C16_ExportNames ==
    Generated =>
        /\ \A i \in 1..Len(ExportsOf) : sitem.ident \notin Pieces(ExportsOf[i].export_name)
        /\ sout.fn \in {"init", "receive"} =>
               /\ ExportsOf[1].export_name = EntryExportName
               /\ Len(ExportsOf) = IF sout.build_schema /\ SiteHas("parameter") THEN 2 ELSE 1
               /\ Len(ExportsOf) = 2 =>
                      ExportsOf[2].export_name =
                          <<"concordium_schema_function_">> \o EntryExportName
        /\ sout.fn = "contract_state" =>
               IF sout.build_schema
               THEN /\ Len(ExportsOf) = 1
                    /\ ExportsOf[1].export_name =
                           <<"concordium_schema_state_", SiteValue("contract")>>
               ELSE ExportsOf = <<>>

\* An init with a parameter schema, and what it exports.
C16_Witness ==
    /\ Generated /\ sout.fn = "init" /\ sout.build_schema
    /\ ExportsOf[1].export_name = <<"init_", "c">>
    /\ Len(ExportsOf) = 2
    /\ ExportsOf[2].export_name = <<"concordium_schema_function_", "init_", "c">>

(***************************************************************************)
(* Further claims about the field generators (checked under SpecGen).      *)
(***************************************************************************)
FieldCall == gout.fn \in {"impl_serial_field", "impl_deserial_field"}
\* The field's only annotation is a length attribute that is not given an
\* integer literal: a bare flag, a list form, or a non-integer literal.
LoneLengthWithoutInteger ==
    /\ Len(fattrs) = 1
    /\ fattrs[1].name \in LengthNames
    /\ fattrs[1].form \in {"path", "list"} \/ fattrs[1].lit.k # "int"

\* C17: a length attribute present without an integer literal value is a
\* validation error; the field is never generated as if the attribute were
\* absent (Delegate).
C17_LengthWithoutIntegerRejected ==
    (FieldCall /\ LoneLengthWithoutInteger) => ~gout.res.ok

SchemaCall == gout.fn = "schema_type_field_type"

\* C18: for every combination of attributes on a field, the schema generator
\* fails iff the codec generators fail, annotates the field's schema with a
\* width iff the codec generators use a length prefix, and the widths agree.
C18_SchemaAgreesWithCodec ==
    SchemaCall =>
        /\ gout.res.ok = impl_serial_field(fattrs).ok
        /\ gout.res.ok = impl_deserial_field(fattrs).ok
        /\ gout.res.ok =>
               /\ Unwrap(gout.res).annotated
                      = (Unwrap(impl_serial_field(fattrs)).kind # "delegate")
               /\ Unwrap(gout.res).annotated
                      = (Unwrap(impl_deserial_field(fattrs)).kind # "delegate")
               /\ Unwrap(gout.res).annotated =>
                      /\ Unwrap(gout.res).width = Unwrap(impl_serial_field(fattrs)).width
                      /\ Unwrap(gout.res).width = Unwrap(impl_deserial_field(fattrs)).width

\* A field whose width comes from the last attribute of the priority order.
C18_Witness ==
    /\ SchemaCall /\ gout.res.ok
    /\ Unwrap(gout.res) = SchemaTokens(TRUE, 8)
    /\ Unwrap(impl_serial_field(fattrs)) = SerialTokens("string", 8)

\* C19: whenever a field generator succeeds, the encoder and the decoder
\* generated for the field use the same strategy: the helper (kind) and width
\* of the first length attribute, in the priority order size_length,
\* map_size_length, set_size_length, string_size_length, that the field carries
\* with a value, whatever the order in which the annotations are written; and
\* the field type's own codec (Delegate) when it carries none of the four.
C19_SameStrategyByPriority ==
    (FieldCall /\ gout.res.ok) =>
        /\ impl_serial_field(fattrs).ok
        /\ impl_deserial_field(fattrs).ok
        /\ gout.res = IF gout.fn = "impl_serial_field"
                      THEN impl_serial_field(fattrs) ELSE impl_deserial_field(fattrs)
        /\ Unwrap(impl_serial_field(fattrs)).kind = Unwrap(impl_deserial_field(fattrs)).kind
        /\ Unwrap(impl_serial_field(fattrs)).width = Unwrap(impl_deserial_field(fattrs)).width
        /\ IF Present = {}
           THEN Unwrap(gout.res).kind = "delegate"
           ELSE /\ Unwrap(gout.res).kind = KindOf(Winner)
                /\ Unwrap(gout.res).width = WinnerWidth

\* The decoder of a field annotated string_size_length first and size_length
\* second: size_length wins.
C19_Witness ==
    /\ gout.fn = "impl_deserial_field" /\ gout.res.ok
    /\ Len(fattrs) = 2
    /\ fattrs[1].name = "string_size_length" /\ fattrs[1].form = "nv"
    /\ fattrs[2].name = "size_length" /\ fattrs[2].form = "nv"
    /\ Unwrap(gout.res).kind = "vec"
    /\ Unwrap(gout.res).width = fattrs[2].lit.v
    /\ Unwrap(gout.res).width # fattrs[1].lit.v

LookupCall == sout.fn = "get_attribute_value"

\* C20: get_attribute_value(list, name) returns the string value iff the first
\* entry named `name` is a name = "string" entry; it returns an error iff that
\* first entry is a bare flag, a list form or a non-string literal; and it
\* returns Ok(None), never an error, iff no entry of the list has that name.
C20_LookupByFirstEntry ==
    LookupCall =>
        /\ (sout.res.ok /\ Unwrap(sout.res) # None) <=> SiteGiven(sout.target)
        /\ SiteGiven(sout.target) => sout.res = Ok(Some(SiteValue(sout.target)))
        /\ ~sout.res.ok <=>
               (SiteHas(sout.target) /\ ~SiteIsString(SiteFirst(sout.target)))
        /\ (sout.res = Ok(None)) <=> ~SiteHas(sout.target)

\* The first entry named contract is a bare flag and a later one carries a
\* string: the lookup fails at the first.
C20_Witness ==
    /\ LookupCall /\ sout.target = "contract"
    /\ Len(sattrs) >= 2
    /\ sattrs[1] = SitePath("contract")
    /\ sattrs[2] = SiteNV("contract", SiteStr("c"))
    /\ ~sout.res.ok
    /\ sout.res.err[1].span = 1

(***************************************************************************)
(* Claims about field-attribute collection (checked under SpecGen).        *)
(***************************************************************************)
CollectCall == gout.fn = "get_concordium_field_attributes"
\* The positions of the annotations whose name is not a valid field attribute.
Unknown ==
    {i \in 1..Len(fattrs) :
        /\ fattrs[i].form # "lit"
        /\ fattrs[i].name \notin {"size_length", "set_size_length", "map_size_length",
                                  "string_size_length", "ensure_ordered"}}
\* Every other entry of the field is an annotation (not a nested literal).
OthersAreAnnotations == \A i \in 1..Len(fattrs) : fattrs[i].form # "lit"

\* C21: on a field carrying an annotation whose name is outside the five valid
\* names, field-attribute collection fails with one "not supported" error
\* placed at the first such annotation, whichever valid annotations the field
\* carries besides it and in whichever position it appears.
C21_UnknownAttributeRejected ==
    (CollectCall /\ Unknown # {} /\ OthersAreAnnotations) =>
        /\ ~gout.res.ok
        /\ Len(gout.res.err) = 1
        /\ gout.res.err[1].msg
               = "The attribute is not supported as a concordium field attribute."
        /\ gout.res.err[1].span = Least(Unknown)

\* The unknown annotation comes last, after two valid ones.
C21_Witness ==
    /\ CollectCall /\ ~gout.res.ok
    /\ Len(fattrs) = 3
    /\ Unknown = {3}
    /\ fattrs[1] = MetaNV("size_length", IntLit(2))
    /\ fattrs[2] = MetaPath("ensure_ordered")
    /\ gout.res.err[1].span = 3

(***************************************************************************)
(* Claims about the order and the frame of the wrappers' state-store       *)
(* accesses (checked under SpecWrap).                                      *)
(***************************************************************************)
PlainReceive == wpc # "idle" /\ wcfg.kind = "receive" /\ ~wcfg.low_level
\* The state-store accesses and the user call, in the order they happened.
IsStoreOrUser(e) == e \in StoreSteps \cup {"user"}
StoreLog == SelectSeq(wlog, IsStoreOrUser)
ReceiveOrder == <<"open_state", "get", "user", "seek", "serial">>
FailedStep(e) == IF e = "serial" THEN "serial_err" ELSE IF e = "seek" THEN "seek_err"
                 ELSE IF e = "get" THEN "get_err" ELSE e
Wrote == Logged("serial") \/ Logged("serial_err")

\* C22: in every execution of a receive wrapper without low_level the steps
\* occur in this order: amount check, read and deserialize the state, call of
\* the user function, seek of the state store to its start, write of the
\* re-serialized state.  Each step happens at most once and only after the
\* steps before it succeeded; nothing is written unless the user function has
\* returned Ok; the write starts at position 0 right after the seek, with no
\* other access of the state store in between; and the store is changed by
\* nothing but the write.
C22_ReceiveStepOrder ==
    PlainReceive =>
        /\ wlog # <<>> => GatePassed
        /\ Len(StoreLog) <= Len(ReceiveOrder)
        /\ \A i \in 1..Len(StoreLog) :
               IF i < Len(StoreLog) THEN StoreLog[i] = ReceiveOrder[i]
               ELSE StoreLog[i] \in {ReceiveOrder[i], FailedStep(ReceiveOrder[i])}
        /\ (Logged("seek") \/ Logged("seek_err") \/ Wrote) => (Logged("user") /\ ures.ok)
        /\ wpc = "serial" => (cursor = 0 /\ wlog[Len(wlog)] = "seek")
        /\ Wrote => (wlog[Len(wlog) - 1] = "seek" /\ wpc = "done")
        /\ ~Wrote => store = store0

\* A complete successful receive call.
C22_Witness ==
    /\ PlainReceive /\ wpc = "done"
    /\ StoreLog = ReceiveOrder
    /\ store # store0
    /\ status = Returned(1)

\* The user function of a wrapper without low_level has returned Err.
UserErr == ~wcfg.low_level /\ Logged("user") /\ ~ures.ok
\* The state value that the store held at call entry.
EntryState == StateDeserial(store0, 1).val[1].fields[1]

\* C23: when the user function returns Err in a wrapper without low_level, the
\* call ends right there with status -1 and the state store holds exactly what
\* it held at call entry: init has not opened the store, receive has opened
\* and read it and nothing else, and what the receive user function changed
\* in the deserialized state value is not written.
C23_UserErrLeavesStore ==
    UserErr =>
        /\ wpc = "done" /\ status = Returned(-1)
        /\ store = store0
        /\ wlog[Len(wlog)] = "user"
        /\ StoreLog = IF wcfg.kind = "init" THEN <<"user">>
                      ELSE <<"open_state", "get", "user">>

\* A receive user function changed the state value and then returned Err.
C23_Witness ==
    /\ UserErr /\ wcfg.kind = "receive"
    /\ wstate # EntryState
    /\ store = store0 /\ store # <<>>
    /\ status = Returned(-1)

\* A receive call without low_level has returned the action's tag.
ReceiveSucceeded ==
    /\ PlainReceive /\ wpc = "done"
    /\ status.kind = "returned" /\ ures.ok

\* C24: after a receive call without low_level has returned successfully,
\* deserializing the state store from its start succeeds and yields exactly
\* the state value the user function left, whatever calls came before and
\* also when the new encoding is shorter than the store it is written over
\* (the bytes after it stay in the store and are not read).
C24_StoreHoldsUserState ==
    ReceiveSucceeded =>
        /\ StateDeserial(store, 1).ok
        /\ StateDeserial(store, 1).val[1].fields[1] = wstate
        /\ SubSeq(store, 1, Len(StateSerial(wstate))) = StateSerial(wstate)
        /\ Len(store) >= Len(store0)

\* The new state's encoding is shorter than the store it overwrites.
C24_Witness ==
    /\ ReceiveSucceeded
    /\ Len(StateSerial(wstate)) < Len(store0)
    /\ store # StateSerial(wstate)
    /\ wstate # EntryState
    /\ StateDeserial(store, 1).val[1].fields[1] = wstate

(***************************************************************************)
(* Claim about the low_level wrappers (checked under SpecWrapLive).        *)
(***************************************************************************)
LowLevelCall == wpc # "idle" /\ wcfg.low_level
\* The status a low_level call returns.
LowLevelStatus ==
    IF ~GatePassed \/ ~ures.ok THEN -1
    ELSE IF wcfg.kind = "init" THEN 0 ELSE ures.tag
LowLevelSafe ==
    LowLevelCall =>
        /\ wpc \in {"setup", "ctx", "open", "user", "done"}
        /\ status # Trapped
        /\ \A i \in 1..Len(wlog) : wlog[i] \in {"logger_init", "open_ctx", "open_state", "user"}
        /\ ~Logged("user") => store = store0
        /\ Logged("user") => (ures.args[Len(ures.args)] = "state" /\ wpc = "done")
        /\ wpc = "done" => status = Returned(LowLevelStatus)

\* C25: a low_level wrapper (init or receive) opens the state store and hands
\* the handle to the user function, and never reads, seeks or writes the store
\* itself; it never traps; every call terminates by returning -1 (amount check
\* or user Err), 0 (init Ok) or the action's tag (receive Ok); and the store
\* differs from its contents at call entry only once the user function ran.
C25_LowLevelReturns ==
    /\ []LowLevelSafe
    /\ (wpc = "setup" /\ wcfg.low_level) ~> (wpc = "done" /\ status.kind = "returned")

\* A low_level receive whose user function wrote the store through the handle
\* and returned an action.
C25_Witness ==
    /\ LowLevelCall /\ wcfg.kind = "receive" /\ wpc = "done"
    /\ ures.ok /\ store # store0
    /\ status = Returned(MaxTag)
    /\ wlog = <<"open_ctx", "open_state", "user">>

====
